---- MODULE Spec2Model ----
(***************************************************************************)
(* Model of the chess_card scoring service (src/app.py and the metric      *)
(* modules it calls): the session store SESSIONS, the two request handlers *)
(* init_session and process_game_result, the Elo calibration and the       *)
(* cross-game aggregator.                                                  *)
(*                                                                         *)
(* Numbers.  Python floats are modelled in fixed point:                    *)
(*   raw scores    in hundredths   (87.31 is 8731, the int 50 is 5000)     *)
(*   anchors       in tenths       (37.5 is 375)                           *)
(*   elasticities  in hundredths   (0.35 is 35)                            *)
(* Calibrated scores, samples and aggregates are Python ints and are       *)
(* integers here.  A nullable value is a tuple of length at most one:      *)
(* None is <<>> and the number v is <<v>>.                                 *)
(***************************************************************************)
EXTENDS Integers, Sequences, FiniteSets, TLC

VARIABLES
    SESSIONS,   \* app.py:27    dict username -> session
    response,   \* the body of the last HTTP response
    call,       \* locals of the last process_game_result call
    fn          \* the pure function under test: its arguments and its return value

vars == <<SESSIONS, response, call, fn>>

----------------------------------------------------------------------------
(* Bounds of the model *)

\* process_game_result calls that reach the append, over all sessions
MaxGames == 2
\* longest history handed to the aggregator on its own
MaxSamples == 12
\* longest period of the game outcomes in such a history
MaxPeriod == 5

----------------------------------------------------------------------------
(* Values *)

Null == <<>>
Some(v) == <<v>>

Min(a, b) == IF a < b THEN a ELSE b
Max(a, b) == IF a > b THEN a ELSE b
Abs(x) == IF x < 0 THEN 0 - x ELSE x

RECURSIVE SumSeq(_)
SumSeq(s) == IF s = <<>> THEN 0 ELSE Head(s) + SumSeq(Tail(s))

\* list.sort() on a list of ints: ascending, duplicates kept
RECURSIVE Insert(_, _)
Insert(x, s) ==
    IF s = <<>> THEN <<x>>
    ELSE IF x <= Head(s) THEN <<x>> \o s
    ELSE <<Head(s)>> \o Insert(x, Tail(s))

RECURSIVE sort(_)
sort(s) == IF s = <<>> THEN <<>> ELSE Insert(Head(s), sort(Tail(s)))

METRICS == <<"OPN", "MID", "END", "TAC", "STR", "CAL", "TMG", "INT", "ATK", "DEF", "ACC", "RES">>

MetricNames == {METRICS[i] : i \in 1..Len(METRICS)}

----------------------------------------------------------------------------
(* Calibration: get_elo_target and calibrate_score *)

\* get_elo_target with the band edges compared by < instead of <=.
get_elo_target_strict(rating) ==
    LET rating0 == IF rating < 0 THEN 0 ELSE rating
        r == Min(3200, rating0)
    IN  IF r < 400 THEN 150
        ELSE IF r < 800 THEN 375
        ELSE IF r < 1200 THEN 500
        ELSE IF r < 1600 THEN 600
        ELSE IF r < 2000 THEN 725
        ELSE IF r < 2600 THEN 850
        ELSE IF r < 3000 THEN 925
        ELSE 980

\* The anchor of a rating, in tenths.
get_elo_target(rating) ==
    LET rating0 == IF rating < 0 THEN 0 ELSE rating
        r == Min(3200, rating0)
    IN  IF r <= 400 THEN 150
        ELSE IF r <= 800 THEN 375
        ELSE IF r <= 1200 THEN 500
        ELSE IF r <= 1600 THEN 600
        ELSE IF r <= 2000 THEN 725
        ELSE IF r <= 2600 THEN 850
        ELSE IF r <= 3000 THEN 925
        ELSE 980

\* Elasticities in hundredths.
elasticity_map ==
    ("ACC" :> 35) @@ ("OPN" :> 30) @@ ("MID" :> 35) @@ ("END" :> 35) @@
    ("CAL" :> 40) @@ ("INT" :> 50) @@ ("TMG" :> 50) @@ ("RES" :> 45) @@
    ("TAC" :> 40) @@ ("STR" :> 25) @@ ("ATK" :> 45) @@ ("DEF" :> 40)

\* elasticity_map.get(metric_name, 0.35)
elasticity_of(metric_name) ==
    IF metric_name \in DOMAIN elasticity_map THEN elasticity_map[metric_name] ELSE 35

\* calibrate_score falling back to the anchor alone for a null raw score.
calibrate_score_anchor_fallback(raw_score, rating, metric_name) ==
    LET anchor == get_elo_target(rating)
        elasticity == elasticity_of(metric_name)
        raw == IF raw_score = Null THEN anchor * 10 ELSE raw_score[1]
        final_score == (anchor * (100 - elasticity)) * 100 + (raw * elasticity) * 10
    IN  Some(Max(0, Min(100 * 100000, final_score)) \div 100000)

\* raw_score: nullable, hundredths.  The result: nullable int.
\* final_score is held in units of 1/100000 and is exact.  Python evaluates
\* it in doubles, which differs in the last place only: over all whole and
\* two-decimal raw scores, the truncation differs from the exact one for
\* anchor 85.0, OPN and raw 5 or 15 alone (60.99999999999999 and
\* 63.99999999999999 truncate to 60 and 63, the exact sums are 61 and 64).
calibrate_score(raw_score, rating, metric_name) ==
    IF raw_score = Null THEN Null
    ELSE LET anchor == get_elo_target(rating)
             elasticity == elasticity_of(metric_name)
             final_score == (anchor * (100 - elasticity)) * 100 + (raw_score[1] * elasticity) * 10
         IN  Some(Max(0, Min(100 * 100000, final_score)) \div 100000)

----------------------------------------------------------------------------
(* Aggregator: _calculate_aggregates *)

\* aggregate_metric without the division in the simple-mean branch.
aggregate_metric_sum(samples) ==
    LET kept == SelectSeq(samples, LAMBDA v : v # Null)
        valid_values == [i \in 1..Len(kept) |-> kept[i][1]]
        n == Len(valid_values)
    IN  IF n = 0 THEN 0
        ELSE IF n < 5 THEN SumSeq(valid_values)
        ELSE LET sorted == sort(valid_values)
                 cutoff == n \div 10
                 slice == SubSeq(sorted, cutoff + 1, n - cutoff)
                 trimmed == IF slice = <<>> THEN sorted ELSE slice
             IN  SumSeq(trimmed) \div Len(trimmed)

\* aggregate_metric with the cutoff rounded up instead of down.
aggregate_metric_cutoff_up(samples) ==
    LET kept == SelectSeq(samples, LAMBDA v : v # Null)
        valid_values == [i \in 1..Len(kept) |-> kept[i][1]]
        n == Len(valid_values)
    IN  IF n = 0 THEN 0
        ELSE IF n < 5 THEN SumSeq(valid_values) \div n
        ELSE LET sorted == sort(valid_values)
                 cutoff == (n + 9) \div 10
                 slice == SubSeq(sorted, cutoff + 1, n - cutoff)
                 trimmed == IF slice = <<>> THEN sorted ELSE slice
             IN  SumSeq(trimmed) \div Len(trimmed)

\* aggregate_metric trimming the list in arrival order, without the sort.
aggregate_metric_unsorted(samples) ==
    LET kept == SelectSeq(samples, LAMBDA v : v # Null)
        valid_values == [i \in 1..Len(kept) |-> kept[i][1]]
        n == Len(valid_values)
    IN  IF n = 0 THEN 0
        ELSE IF n < 5 THEN SumSeq(valid_values) \div n
        ELSE LET cutoff == n \div 10
                 slice == SubSeq(valid_values, cutoff + 1, n - cutoff)
                 trimmed == IF slice = <<>> THEN valid_values ELSE slice
             IN  SumSeq(trimmed) \div Len(trimmed)

\* The body of the loop over METRICS: the stable estimate of one sample list.
aggregate_metric(samples) ==
    LET kept == SelectSeq(samples, LAMBDA v : v # Null)
        valid_values == [i \in 1..Len(kept) |-> kept[i][1]]
        n == Len(valid_values)
    IN  IF n = 0 THEN 0
        ELSE IF n < 5 THEN SumSeq(valid_values) \div n
        ELSE LET sorted == sort(valid_values)
                 cutoff == n \div 10
                 slice == SubSeq(sorted, cutoff + 1, n - cutoff)
                 trimmed == IF slice = <<>> THEN sorted ELSE slice
             IN  SumSeq(trimmed) \div Len(trimmed)

_calculate_aggregates(session) ==
    [m \in MetricNames |-> aggregate_metric(session.metrics_list[m])]

\* metrics_list_after with the sort applied to the session's own list,
\* from which the None samples have been removed.
metrics_list_after_in_place(samples) ==
    LET kept == SelectSeq(samples, LAMBDA v : v # Null)
        sorted == sort([i \in 1..Len(kept) |-> kept[i][1]])
    IN  IF Len(kept) < 5 THEN samples ELSE [i \in 1..Len(sorted) |-> Some(sorted[i])]

\* A sample list of the session after the loop body: valid_values is a new
\* list built by the comprehension, and valid_values.sort() sorts that one.
metrics_list_after(samples) == samples

\* The session after _calculate_aggregates: games_processed is not written.
session_after_aggregates(session) ==
    [games_processed |-> session.games_processed,
     metrics_list |-> [m \in MetricNames |-> metrics_list_after(session.metrics_list[m])]]

\* overall_of averaging all twelve aggregates, zeros included.
overall_of_all(current_metrics) ==
    LET all == [i \in 1..Len(METRICS) |-> current_metrics[METRICS[i]]]
    IN  SumSeq(all) \div Len(all)

\* The overall score of process_game_result: the mean of the aggregates > 0.
overall_of(current_metrics) ==
    LET all == [i \in 1..Len(METRICS) |-> current_metrics[METRICS[i]]]
        valid_metrics == SelectSeq(all, LAMBDA v : v > 0)
    IN  IF valid_metrics = <<>> THEN 0
        ELSE SumSeq(valid_metrics) \div Len(valid_metrics)

----------------------------------------------------------------------------
(* The metric functions, at the boundary process_game_result calls them.    *)
(* Each outcome is a record: kind "raise" is an exception leaving the       *)
(* function; any other kind is a return value.                              *)

Raise == [kind |-> "raise"]

\* calculate_game_phase_accuracy: None for an empty analysis list
\* (game_accuracy.py:115), else the per-colour dict of round(score, 2)
\* values, None for an empty bucket.  The {'error': ...} return of line 174
\* needs a PGN with nothing to read, for which get_user_color resolves no
\* colour, so process_game_result never sees it.
AccOk(acc, opn, mid, end) ==
    [kind |-> "ok", accuracy |-> acc, opening |-> opn, middlegame |-> mid, endgame |-> end]

AccOutcomes ==
    { Raise, [kind |-> "none"],
      AccOk(Some(8731), Some(9000), Some(8250), Some(7000)),
      AccOk(Some(8731), Some(9000), Some(8250), Null),
      AccOk(Null, Null, Null, Null) }

\* calculate_psych_metrics: ints in [0,100], never None
PsychOk(cal, int, tmg) == [kind |-> "ok", CAL |-> cal, INT |-> int, TMG |-> tmg]

PsychOutcomes == { Raise, PsychOk(50, 50, 100), PsychOk(77, 64, 30) }

\* calculate_resilience: events holds the scores of the player's pressure
\* plies (here whole numbers in [0,100])
ResOk(events) == [kind |-> "ok", events |-> events]

ResOutcomes == { Raise, ResOk(<<>>), ResOk(<<100, 37>>), ResOk(<<0>>) }

\* The final aggregation of calculate_resilience for one colour.
calculate_resilience(scores) ==
    IF scores = <<>> THEN Null
    ELSE Some(Max(0, Min(100, SumSeq(scores) \div Len(scores))))

\* calculate_tactics_and_strategy and calculate_attack_and_defense: ints
PosOk(tac, str) == [kind |-> "ok", TAC |-> tac, STR |-> str]

PosOutcomes == { Raise, PosOk(50, 50) }

AtkOk(atk, dfn) == [kind |-> "ok", ATK |-> atk, DFN |-> dfn]

AtkOutcomes == { Raise, AtkOk(50, 50) }

\* get_user_color: "none" is None
Colors == {"white", "black", "none"}

\* get_player_rating
Ratings == {0, 1200, 2700}

Game(color, rating, acc, psych, res, pos, atk) ==
    [user_color |-> color, rating |-> rating, acc |-> acc, psych |-> psych,
     res |-> res, pos |-> pos, atk |-> atk]

BaseGame ==
    Game("white", 1200, AccOk(Some(8731), Some(9000), Some(8250), Some(7000)),
         PsychOk(50, 50, 100), ResOk(<<100, 37>>), PosOk(50, 50), AtkOk(50, 50))

Fields == {"user_color", "rating", "acc", "psych", "res", "pos", "atk"}

\* A game whose analysis list is empty: the accuracy model returns None
\* (game_accuracy.py:115), the loops of the other four models run over no
\* ply and leave their defaults (CAL 50, INT 50, TMG 100; no pressure ply;
\* TAC 50, STR 50; ATK 50, DEF 50).
EmptyAnalysisGame(color, rating) ==
    Game(color, rating, [kind |-> "none"], PsychOk(50, 50, 100), ResOk(<<>>),
         PosOk(50, 50), AtkOk(50, 50))

\* The games submitted: the base game, every game one field away from it
\* whose analysis list is not empty, and the games with an empty one.
Games ==
    { g \in { Game(c, r, a, p, s, t, d) :
                c \in Colors, r \in Ratings, a \in AccOutcomes, p \in PsychOutcomes,
                s \in ResOutcomes, t \in PosOutcomes, d \in AtkOutcomes } :
        /\ Cardinality({f \in Fields : g[f] # BaseGame[f]}) <= 1
        /\ g.acc.kind # "none" }
    \cup { EmptyAnalysisGame(c, 1200) : c \in Colors }

----------------------------------------------------------------------------
(* process_game_result, step 2: the game's metrics *)

\* Whether the try block is left by an exception.  A None returned by the
\* accuracy model is subscripted with the colour, which raises.
raises(g) ==
    IF g.user_color = "none" THEN FALSE
    ELSE IF g.acc.kind # "ok" THEN TRUE
    ELSE IF g.psych.kind = "raise" THEN TRUE
    ELSE IF g.res.kind = "raise" THEN TRUE
    ELSE IF g.pos.kind = "raise" THEN TRUE
    ELSE g.atk.kind = "raise"

\* raw_res = calculate_resilience(data)[user_color] or 50
raw_res_of(g) ==
    LET res == calculate_resilience(g.res.events)
    IN  IF res = Null \/ res = Some(0) THEN Some(5000) ELSE Some(res[1] * 100)

\* The raw scores as handed to calibrate_score (a game that does not raise).
raw_scores(g) ==
    [m \in MetricNames |->
        CASE m = "ACC" -> g.acc.accuracy
          [] m = "OPN" -> g.acc.opening
          [] m = "MID" -> g.acc.middlegame
          [] m = "END" -> g.acc.endgame
          [] m = "CAL" -> Some(g.psych.CAL * 100)
          [] m = "INT" -> Some(g.psych.INT * 100)
          [] m = "TMG" -> Some(g.psych.TMG * 100)
          [] m = "RES" -> raw_res_of(g)
          [] m = "TAC" -> Some(g.pos.TAC * 100)
          [] m = "STR" -> Some(g.pos.STR * 100)
          [] m = "ATK" -> Some(g.atk.ATK * 100)
          [] m = "DEF" -> Some(g.atk.DFN * 100)]

\* game_metrics_of with one try block around each metric family: a family
\* that fails leaves its own entries at 0 and the others are calibrated.
game_metrics_of_contained(g) ==
    IF g.user_color = "none" THEN [m \in MetricNames |-> Some(0)]
    ELSE [m \in MetricNames |->
            CASE m \in {"ACC", "OPN", "MID", "END"} ->
                    IF g.acc.kind # "ok" THEN Some(0)
                    ELSE calibrate_score(
                            (CASE m = "ACC" -> g.acc.accuracy [] m = "OPN" -> g.acc.opening
                               [] m = "MID" -> g.acc.middlegame [] m = "END" -> g.acc.endgame),
                            g.rating, m)
              [] m \in {"CAL", "INT", "TMG"} ->
                    IF g.psych.kind # "ok" THEN Some(0)
                    ELSE calibrate_score(Some(g.psych[m] * 100), g.rating, m)
              [] m = "RES" ->
                    IF g.res.kind # "ok" THEN Some(0)
                    ELSE calibrate_score(raw_res_of(g), g.rating, m)
              [] m \in {"TAC", "STR"} ->
                    IF g.pos.kind # "ok" THEN Some(0)
                    ELSE calibrate_score(Some(g.pos[m] * 100), g.rating, m)
              [] m \in {"ATK", "DEF"} ->
                    IF g.atk.kind # "ok" THEN Some(0)
                    ELSE calibrate_score(
                            Some((IF m = "ATK" THEN g.atk.ATK ELSE g.atk.DFN) * 100),
                            g.rating, m)]

\* game_metrics after the try block.  The calibrations run after all five
\* metric functions, so an exception leaves every entry at its initial 0.
game_metrics_of(g) ==
    IF g.user_color = "none" \/ raises(g)
    THEN [m \in MetricNames |-> Some(0)]
    ELSE [m \in MetricNames |-> calibrate_score(raw_scores(g)[m], g.rating, m)]

----------------------------------------------------------------------------
(* The handlers *)

\* append_samples that appends no zero sample.
append_samples_nonzero(session, game_metrics) ==
    [games_processed |-> session.games_processed + 1,
     metrics_list |->
        [m \in MetricNames |->
            IF game_metrics[m] = Some(0) THEN session.metrics_list[m]
            ELSE Append(session.metrics_list[m], game_metrics[m])]]

\* append_samples assigning the one-sample list instead of appending to it.
append_samples_assign(session, game_metrics) ==
    [games_processed |-> session.games_processed + 1,
     metrics_list |-> [m \in MetricNames |-> <<game_metrics[m]>>]]

\* process_game_result, the append: games_processed += 1 and one sample
\* appended to every metric list.
append_samples(session, game_metrics) ==
    [games_processed |-> session.games_processed + 1,
     metrics_list |->
        [m \in MetricNames |-> Append(session.metrics_list[m], game_metrics[m])]]

Users == {"alice", "bob"}

\* The username of a request: a player, no username, or one the pattern
\* of validate_username rejects.
Usernames == Users \cup {"", "a b"}

validate_username(username) == username \in Users

ProfileReplies == {"ok", "not_found", "unavailable"}

NoCall == [op |-> "none"]
NoFn == [name |-> "none"]

new_session == [games_processed |-> 0, metrics_list |-> [m \in MetricNames |-> <<>>]]

TotalGames ==
    LET RECURSIVE Sum(_)
        Sum(S) == IF S = {} THEN 0
                  ELSE LET u == CHOOSE x \in S : TRUE
                       IN  SESSIONS[u].games_processed + Sum(S \ {u})
    IN  Sum(DOMAIN SESSIONS)

Init ==
    /\ SESSIONS = <<>>
    /\ response = [kind |-> "none"]
    /\ call = NoCall
    /\ fn = NoFn

init_session(username, reply) ==
    /\ IF username = "" \/ ~validate_username(username)
       THEN /\ response' = [kind |-> "error", error |-> "Invalid username", code |-> 400]
            /\ UNCHANGED SESSIONS
       ELSE IF reply = "not_found"
       THEN /\ response' = [kind |-> "error", error |-> "Player not found", code |-> 404]
            /\ UNCHANGED SESSIONS
       ELSE IF reply = "unavailable"
       THEN /\ response' = [kind |-> "error", error |-> "Chess.com API unavailable", code |-> 503]
            /\ UNCHANGED SESSIONS
       ELSE /\ SESSIONS' = [u \in DOMAIN SESSIONS \cup {username} |->
                               IF u = username THEN new_session ELSE SESSIONS[u]]
            /\ response' = [kind |-> "ready", username |-> username,
                            metrics |-> [m \in MetricNames |-> 0], overall |-> 0]
    /\ call' = NoCall
    /\ UNCHANGED fn

\* process_game_result writing the archive line before it looks the
\* session up.
process_game_result_archive_first(username, g) ==
    /\ IF username = "" \/ username \notin DOMAIN SESSIONS
       THEN /\ response' = [kind |-> "error", error |-> "Session expired", code |-> 400]
            /\ call' = [op |-> "process_game_result", username |-> username,
                        appended |-> FALSE, archived |-> Some(username)]
            /\ UNCHANGED SESSIONS
       ELSE /\ TotalGames < MaxGames
            /\ LET session1 == append_samples(SESSIONS[username], game_metrics_of(g))
               IN  /\ SESSIONS' = [SESSIONS EXCEPT ![username] = session1]
                   /\ response' = [kind |-> "game",
                                   games_processed |-> session1.games_processed,
                                   metrics |-> _calculate_aggregates(session1),
                                   overall |-> overall_of(_calculate_aggregates(session1))]
                   /\ call' = [op |-> "process_game_result", username |-> username,
                               game |-> g, appended |-> TRUE, archived |-> Some(username),
                               game_metrics |-> game_metrics_of(g)]
    /\ UNCHANGED fn

\* process_game_result.  call keeps what the request did besides the
\* response: archived is the file data/<username>_games.jsonl the request's
\* line was appended to, None when no line was written.
process_game_result(username, g) ==
    /\ IF username = "" \/ username \notin DOMAIN SESSIONS
       THEN /\ response' = [kind |-> "error", error |-> "Session expired", code |-> 400]
            /\ call' = [op |-> "process_game_result", username |-> username,
                        appended |-> FALSE, archived |-> Null]
            /\ UNCHANGED SESSIONS
       ELSE /\ TotalGames < MaxGames
            /\ LET session == SESSIONS[username]
                   game_metrics == game_metrics_of(g)
                   session1 == append_samples(session, game_metrics)
                   current_metrics == _calculate_aggregates(session1)
               IN  /\ SESSIONS' = [SESSIONS EXCEPT
                                     ![username] = session_after_aggregates(session1)]
                   /\ response' = [kind |-> "game",
                                   games_processed |-> session1.games_processed,
                                   metrics |-> current_metrics,
                                   overall |-> overall_of(current_metrics)]
                   /\ call' = [op |-> "process_game_result", username |-> username,
                               game |-> g, appended |-> TRUE, archived |-> Some(username),
                               game_metrics |-> game_metrics]
    /\ UNCHANGED fn

InitSession == \E username \in Usernames, reply \in ProfileReplies : init_session(username, reply)

ProcessGameResult == \E username \in Usernames, g \in Games : process_game_result(username, g)

Next == InitSession \/ ProcessGameResult

Spec == Init /\ [][Next]_vars

----------------------------------------------------------------------------
(* Arithmetic of the metric modules.  Win percentages, accuracies, weights  *)
(* and scores are Python floats; here they are integers in hundredths, and  *)
(* math.exp is evaluated to four decimals from its values at the decimal    *)
(* digits of the argument (exp(-(a+b)) = exp(-a) * exp(-b)), which agrees   *)
(* with the float to within 0.0003.                                         *)

\* 10000 * exp(-a) for a = 0, 1, ..., 10 (0 beyond)
ExpUnits == <<10000, 3679, 1353, 498, 183, 67, 25, 9, 3, 1, 0>>
\* 10000 * exp(-d/10^k) for k = 1..4 (the table) and d = 0..9 (the entry)
ExpFractions ==
    << <<10000, 9048, 8187, 7408, 6703, 6065, 5488, 4966, 4493, 4066>>,
       <<10000, 9900, 9802, 9704, 9608, 9512, 9418, 9324, 9231, 9139>>,
       <<10000, 9990, 9980, 9970, 9960, 9950, 9940, 9930, 9920, 9910>>,
       <<10000, 9999, 9998, 9997, 9996, 9995, 9994, 9993, 9992, 9991>> >>

\* a * b / 10000, rounded
MulRound(a, b) == (a * b + 5000) \div 10000

\* 10000 * math.exp(-x / 10000) for x >= 0
exp_neg(x) ==
    IF x \div 10000 >= Len(ExpUnits) THEN 0
    ELSE MulRound(MulRound(MulRound(MulRound(
            ExpUnits[(x \div 10000) + 1],
            ExpFractions[1][((x \div 1000) % 10) + 1]),
            ExpFractions[2][((x \div 100) % 10) + 1]),
            ExpFractions[3][((x \div 10) % 10) + 1]),
            ExpFractions[4][(x % 10) + 1])

\* The integer part of the square root of n >= 0.
RECURSIVE isqrt_between(_, _, _)
isqrt_between(n, lo, hi) ==
    IF lo >= hi THEN lo
    ELSE LET mid == (lo + hi + 1) \div 2
         IN  IF mid * mid <= n THEN isqrt_between(n, mid, hi)
             ELSE isqrt_between(n, lo, mid - 1)

isqrt(n) == isqrt_between(n, 0, 46340)

\* a / b rounded to the nearest integer (a >= 0, b > 0)
DivRound(a, b) == (2 * a + b) \div (2 * b)

----------------------------------------------------------------------------
(* Python values of an evaluation field (played_eval, a line's score):      *)
(* None, an int of centipawns, or a str, held as its sequence of characters *)

PyNone == [type |-> "NoneType"]
PyInt(n) == [type |-> "int", v |-> n]
PyStr(chars) == [type |-> "str", s |-> chars]

\* c in s
Contains(s, c) == \E i \in 1..Len(s) : s[i] = c

DigitValue ==
    ("0" :> 0) @@ ("1" :> 1) @@ ("2" :> 2) @@ ("3" :> 3) @@ ("4" :> 4) @@
    ("5" :> 5) @@ ("6" :> 6) @@ ("7" :> 7) @@ ("8" :> 8) @@ ("9" :> 9)

IsDigits(s) == Len(s) > 0 /\ \A i \in 1..Len(s) : s[i] \in DOMAIN DigitValue

RECURSIVE DigitsValue(_)
DigitsValue(s) ==
    IF s = <<>> THEN 0 ELSE DigitsValue(SubSeq(s, 1, Len(s) - 1)) * 10 + DigitValue[s[Len(s)]]

\* int(s) and float(s) of a str of an optional sign and decimal digits;
\* Null when Python raises ValueError.
parse_number(s) ==
    IF IsDigits(s) THEN Some(DigitsValue(s))
    ELSE IF Len(s) > 1 /\ s[1] \in {"-", "+"} /\ IsDigits(Tail(s))
         THEN Some(IF s[1] = "-" THEN 0 - DigitsValue(Tail(s)) ELSE DigitsValue(Tail(s)))
         ELSE Null

\* 100 / (1 + math.exp(-WIN_GAMMA * cp)) in hundredths, WIN_GAMMA =
\* 0.00368208, for a cp already clamped to [-10000, 10000]
logistic(cp) ==
    LET e == exp_neg((36821 * (IF cp < 0 THEN 0 - cp ELSE cp)) \div 1000)
    IN  IF cp >= 0 THEN DivRound(100000000, 10000 + e)
        ELSE DivRound(10000 * e, 10000 + e)

----------------------------------------------------------------------------
(* The accuracy model: calculate_game_phase_accuracy (game_accuracy.py).    *)
(* game_data is [analysis, pgn]; an analysis item is [played_eval,          *)
(* top_lines].  The PGN is held as what replaying it yields: nothing to     *)
(* read, or the side to move and full-move number of the first position     *)
(* and, for each mainline move, the pieces on the board before it.          *)

\* to_win_percent of game_accuracy.py, in hundredths
acc_to_win_percent(cp) == logistic(Max(-10000, Min(10000, cp)))

\* calculate_move_accuracy with the result left unclamped.
calculate_move_accuracy_unclamped(wp_before, wp_after) ==
    IF wp_after >= wp_before THEN 10000
    ELSE LET diff == wp_before - wp_after
             raw == MulRound(10317, exp_neg((43544 * diff) \div 10000)) - 317
         IN  raw + 100

\* calculate_move_accuracy, win percentages and result in hundredths
\* (ACC_A = 103.17, ACC_B = -3.17, ACC_K = 0.043544)
calculate_move_accuracy(wp_before, wp_after) ==
    IF wp_after >= wp_before THEN 10000
    ELSE LET diff == wp_before - wp_after
             raw == MulRound(10317, exp_neg((43544 * diff) \div 10000)) - 317
         IN  Max(0, Min(10000, raw + 100))

\* statistics.harmonic_mean of accuracies >= 0: 0 when one of them is 0
harmonic_mean(accs) ==
    IF \E i \in 1..Len(accs) : accs[i] = 0 THEN 0
    ELSE (Len(accs) * 100000000)
            \div SumSeq([i \in 1..Len(accs) |-> 100000000 \div accs[i]])

\* aggregate_score: nullable, hundredths
aggregate_score(accs, weights) ==
    IF accs = <<>> THEN Null
    ELSE LET total_weight == SumSeq(weights)
         IN  IF total_weight = 0 THEN Some(0)
             ELSE LET w_mean == DivRound(SumSeq([i \in 1..Len(accs) |-> accs[i] * weights[i]]),
                                         total_weight)
                      h_mean == harmonic_mean(accs)
                  IN  Some(DivRound(w_mean + h_mean, 2))

\* statistics.stdev of at least two values
stdev(data) ==
    LET n == Len(data)
        mean == DivRound(SumSeq(data), n)
        squares == [i \in 1..n |-> (data[i] - mean) * (data[i] - mean)]
    IN  isqrt(SumSeq(squares) \div (n - 1))

\* Lines 93-105: the centipawns of one played_eval; last is cps[-1].
eval_cp(val, last) ==
    IF val.type = "NoneType" THEN last
    ELSE IF val.type = "str"
         THEN IF Contains(val.s, "M") \/ Contains(val.s, "#")
              THEN (IF ~(Len(val.s) > 0 /\ val.s[1] = "-") THEN 10000 ELSE -10000)
              ELSE (IF parse_number(val.s) = Null THEN 0 ELSE parse_number(val.s)[1])
         ELSE val.v

\* Lines 83-108: cps, starting from the initial position's 20
RECURSIVE cps_from(_, _)
cps_from(cps, rest) ==
    IF rest = <<>> THEN cps
    ELSE cps_from(Append(cps, eval_cp(Head(rest).played_eval, cps[Len(cps)])), Tail(rest))

win_percents_of(analysis) ==
    LET cps == cps_from(<<20>>, analysis)
    IN  [i \in 1..Len(cps) |-> acc_to_win_percent(cps[i])]

\* Lines 117-135: all_windows
all_windows_of(win_percents) ==
    LET n_moves == Len(win_percents) - 1
        window_size == Max(2, Min(8, n_moves \div 10))
        raw_windows ==
            IF Len(win_percents) <= window_size THEN <<win_percents>>
            ELSE [j \in 1..(Len(win_percents) - window_size + 1) |->
                     SubSeq(win_percents, j, j + window_size - 1)]
        pad_cnt == Min(Len(win_percents), window_size) - 2
    IN  IF pad_cnt > 0
        THEN [j \in 1..pad_cnt |-> raw_windows[1]] \o raw_windows
        ELSE raw_windows

\* move_accuracies_of taking every ply from White's side.
move_accuracies_of_white_only(win_percents) ==
    [i \in 1..(Len(win_percents) - 1) |->
        calculate_move_accuracy(win_percents[i], win_percents[i + 1])]

\* Lines 138-151: the accuracy of every analysed ply (ply i is the i-th
\* entry; odd entries are taken as White's)
move_accuracies_of(win_percents) ==
    [i \in 1..(Len(win_percents) - 1) |->
        IF (i - 1) % 2 = 0
        THEN calculate_move_accuracy(win_percents[i], win_percents[i + 1])
        ELSE calculate_move_accuracy(10000 - win_percents[i], 10000 - win_percents[i + 1])]

\* Lines 153-159: the volatility weight of every analysed ply
weights_of(win_percents) ==
    LET all_windows == all_windows_of(win_percents)
    IN  [i \in 1..(Len(win_percents) - 1) |->
            IF i <= Len(all_windows)
            THEN LET w_data == all_windows[i]
                     std == IF Len(w_data) > 1 THEN stdev(w_data) ELSE 0
                 IN  Max(50, Min(1200, std))
            ELSE 50]

\* PIECE_VALUES of the pieces get_material_score counts
PIECE_VALUES == [Q |-> 9, R |-> 5, B |-> 3, N |-> 3]

\* get_material_score: board maps a colour to its numbers of queens,
\* rooks, bishops and knights.
get_material_score(board) ==
    LET side(c) == board[c].Q * PIECE_VALUES.Q + board[c].R * PIECE_VALUES.R
                   + board[c].B * PIECE_VALUES.B + board[c].N * PIECE_VALUES.N
    IN  side("white") + side("black")

OPENING_MOVE_LIMIT == 15
ENDGAME_MATERIAL_THRESHOLD == 20

\* phase_of testing the move number before the material.
phase_of_opening_first(board, move_num) ==
    IF move_num <= OPENING_MOVE_LIMIT THEN "opening"
    ELSE IF get_material_score(board) <= ENDGAME_MATERIAL_THRESHOLD THEN "endgame"
    ELSE "middlegame"

\* Lines 189-196: the phase of the position a move is played in
phase_of(board, move_num) ==
    IF get_material_score(board) <= ENDGAME_MATERIAL_THRESHOLD THEN "endgame"
    ELSE IF move_num <= OPENING_MOVE_LIMIT THEN "opening"
    ELSE "middlegame"

OtherColor(c) == IF c = "white" THEN "black" ELSE "white"

\* board.turn before the k-th mainline move
turn_at(pgn, k) == IF (k - 1) % 2 = 0 THEN pgn.turn ELSE OtherColor(pgn.turn)

\* board.fullmove_number before the k-th mainline move: it advances after
\* each move of Black
fullmove_at(pgn, k) ==
    pgn.fullmove + (IF pgn.turn = "white" THEN (k - 1) \div 2 ELSE k \div 2)

Phases == {"opening", "middlegame", "endgame"}

\* Lines 178-204: the plies the replay loop visits, and the buckets: for a
\* colour and a category, the plies stored in it, in order
replayed(pgn, move_accuracies) ==
    [k \in 1..Min(Len(pgn.boards), Len(move_accuracies)) |-> k]

buckets_of(pgn, move_accuracies) ==
    [color \in {"white", "black"} |->
        [cat \in Phases \cup {"all"} |->
            SelectSeq(replayed(pgn, move_accuracies),
                      LAMBDA k : /\ turn_at(pgn, k) = color
                                 /\ cat \in {"all", phase_of(pgn.boards[k], fullmove_at(pgn, k))})]]

\* Lines 208-225: the scores of one colour
results_of(bucket, move_accuracies, weights) ==
    LET score(cat) ==
            aggregate_score([i \in 1..Len(bucket[cat]) |-> move_accuracies[bucket[cat][i]]],
                            [i \in 1..Len(bucket[cat]) |-> weights[bucket[cat][i]]])
    IN  AccOk(score("all"), score("opening"), score("middlegame"), score("endgame"))

\* The value returned: None, the error dict, or the scores of both colours.
calculate_game_phase_accuracy(game_data) ==
    LET win_percents == win_percents_of(game_data.analysis)
        n_moves == Len(win_percents) - 1
    IN  IF n_moves < 1 THEN [kind |-> "none"]
        ELSE IF game_data.pgn.kind = "empty" THEN [kind |-> "error"]
        ELSE LET move_accuracies == move_accuracies_of(win_percents)
                 weights == weights_of(win_percents)
                 buckets == buckets_of(game_data.pgn, move_accuracies)
             IN  [kind |-> "ok",
                  white |-> results_of(buckets["white"], move_accuracies, weights),
                  black |-> results_of(buckets["black"], move_accuracies, weights)]

----------------------------------------------------------------------------
(* calculate_game_phase_accuracy on its own: AccInit draws the game_data    *)
(* and CallAccuracy applies the function.                                   *)

\* plies of the analysis list whose evaluations are drawn freely
MaxPlies == 3
\* length of a long analysis list, whose later items carry no played_eval
LongGame == 30

AccEvals == {PyInt(20), PyInt(-300), PyInt(150)}

\* An analysis item whose best line has the score of the move played, and
\* one whose best line is the initial 20 centipawns.
Item(played_eval, tops) ==
    [played_eval |-> played_eval,
     top_lines |-> <<[score |-> IF tops = "same" THEN played_eval ELSE PyInt(20)]>>]

\* The analysis lists: up to MaxPlies drawn items, alone or followed by
\* items without a played_eval up to LongGame items.
Analyses ==
    { [i \in 1..k |-> IF i <= Len(evals) THEN Item(evals[i], tops) ELSE Item(PyNone, tops)] :
        evals \in UNION {[1..n -> AccEvals] : n \in 0..MaxPlies},
        tops \in {"same", "best"},
        k \in 0..LongGame }

Pieces(q, r, b, n) == [Q |-> q, R |-> r, B |-> b, N |-> n]

\* The starting position (62), four rooks (20), and four rooks and a
\* knight of the given colour (23)
BoardFull == [white |-> Pieces(1, 2, 2, 2), black |-> Pieces(1, 2, 2, 2)]
BoardRooks == [white |-> Pieces(0, 2, 0, 0), black |-> Pieces(0, 2, 0, 0)]

\* The replays of a PGN of m moves from a first position, given by a FEN
\* tag or the standard one: no capture from the full board or from four
\* rooks, or the knight of the side not to move at ply j is taken there.
Replays(m) ==
    { [kind |-> "game", turn |-> t, fullmove |-> f, boards |-> [k \in 1..m |-> b]] :
        t \in {"white", "black"}, f \in {1, OPENING_MOVE_LIMIT},
        b \in {BoardFull, BoardRooks} }
    \cup
    { [kind |-> "game", turn |-> t, fullmove |-> f,
       boards |-> [k \in 1..m |->
                     IF k <= j
                     THEN [BoardRooks EXCEPT ![IF (j - 1) % 2 = 0 THEN OtherColor(t) ELSE t] =
                                                Pieces(0, 2, 0, 1)]
                     ELSE BoardRooks]] :
        t \in {"white", "black"}, f \in {1, OPENING_MOVE_LIMIT}, j \in 1..m }

Pgns == {[kind |-> "empty"]} \cup UNION {Replays(m) : m \in 0..(MaxPlies + 1)}

AccInit ==
    /\ SESSIONS = <<>>
    /\ response = [kind |-> "none"]
    /\ call = NoCall
    /\ \E analysis \in Analyses, pgn \in Pgns :
          /\ \/ Len(analysis) = LongGame
             \/ /\ Len(analysis) <= MaxPlies
                /\ \A i \in 1..Len(analysis) : analysis[i].played_eval # PyNone
          /\ fn = [name |-> "calculate_game_phase_accuracy",
                   game_data |-> [analysis |-> analysis, pgn |-> pgn],
                   returned |-> FALSE]

\* The call; buckets are the function's buckets when it returns (the plies
\* stored for a colour and a category), kept next to its result.
CallAccuracy ==
    /\ fn.name = "calculate_game_phase_accuracy"
    /\ ~fn.returned
    /\ LET result == calculate_game_phase_accuracy(fn.game_data)
       IN  fn' = [name |-> fn.name, game_data |-> fn.game_data, returned |-> TRUE,
                  result |-> result,
                  buckets |-> IF result.kind = "ok"
                              THEN buckets_of(fn.game_data.pgn,
                                     move_accuracies_of(win_percents_of(fn.game_data.analysis)))
                              ELSE <<>>]
    /\ UNCHANGED <<SESSIONS, response, call>>

AccNext == CallAccuracy

SpecAcc == AccInit /\ [][AccNext]_vars

----------------------------------------------------------------------------
(* calculate_move_accuracy on its own: MoveInit draws the two win           *)
(* percentages (hundredths) and CallMoveAccuracy applies the function.      *)

\* number of steps the range 0..100 of a win percentage is cut into
WpGrid == 40

\* Win percentages on the grid, and one hundredth above each
WinPercents ==
    { Min(10000, (k * 10000) \div WpGrid + d) : k \in 0..WpGrid, d \in {0, 1} }

MoveInit ==
    /\ SESSIONS = <<>>
    /\ response = [kind |-> "none"]
    /\ call = NoCall
    /\ \E wp_before \in WinPercents, wp_after \in WinPercents :
          fn = [name |-> "calculate_move_accuracy", wp_before |-> wp_before,
                wp_after |-> wp_after, returned |-> FALSE]

CallMoveAccuracy ==
    /\ fn.name = "calculate_move_accuracy"
    /\ ~fn.returned
    /\ fn' = [name |-> fn.name, wp_before |-> fn.wp_before, wp_after |-> fn.wp_after,
              returned |-> TRUE,
              result |-> calculate_move_accuracy(fn.wp_before, fn.wp_after)]
    /\ UNCHANGED <<SESSIONS, response, call>>

MoveNext == CallMoveAccuracy

SpecMove == MoveInit /\ [][MoveNext]_vars

----------------------------------------------------------------------------
(* The win-percentage helpers of the other models, and all of them on one   *)
(* evaluation: WinInit draws it and CallWinPercent applies every variant.   *)

\* to_win_percent of time_features.py, in hundredths
to_win_percent(cp) ==
    IF cp.type = "NoneType" THEN 5000
    ELSE IF cp.type = "str"
         THEN IF Contains(cp.s, "M") \/ Contains(cp.s, "#")
              THEN (IF Contains(cp.s, "-") THEN 0 ELSE 10000)
              ELSE IF parse_number(cp.s) = Null THEN 5000
                   ELSE logistic(Max(-1000, Min(1000, parse_number(cp.s)[1])))
         ELSE logistic(Max(-1000, Min(1000, cp.v)))

\* _to_win_percent of positional_features.py, atk_def.py and resilience.py:
\* the text of to_win_percent, each with its own constant of the same value
tac_to_win_percent(cp) == to_win_percent(cp)
atk_to_win_percent(cp) == to_win_percent(cp)
res_to_win_percent(cp) == to_win_percent(cp)

\* calculate_resilience's played_cp: a str becomes 2000 or -2000
res_played_cp(played_eval) ==
    IF played_eval.type = "str"
    THEN PyInt(IF ~Contains(played_eval.s, "-") THEN 2000 ELSE -2000)
    ELSE played_eval

\* half-width of the centipawn grid, in steps of 50
MaxCpSteps == 30

MateMarkers ==
    { PyStr(s) : s \in { <<"M", "3">>, <<"-", "M", "3">>, <<"M", "-", "3">>, <<"+", "M", "3">>,
                         <<"#", "3">>, <<"-", "#", "3">>, <<"#", "-", "3">>, <<"#">> } }

WinEvals ==
    {PyNone} \cup { PyInt(50 * k) : k \in (0 - MaxCpSteps)..MaxCpSteps }
    \cup MateMarkers
    \cup { PyStr(s) : s \in { <<"1", "5", "0">>, <<"-", "1", "5", "0">>, <<"a">>, <<>> } }

WinInit ==
    /\ SESSIONS = <<>>
    /\ response = [kind |-> "none"]
    /\ call = NoCall
    /\ \E cp \in WinEvals : fn = [name |-> "to_win_percent", cp |-> cp, returned |-> FALSE]

\* The win percentage each model computes for the evaluation: the accuracy
\* model through its reading of played_eval, resilience both for an engine
\* line's score and for played_eval.
CallWinPercent ==
    /\ fn.name = "to_win_percent"
    /\ ~fn.returned
    /\ fn' = [name |-> fn.name, cp |-> fn.cp, returned |-> TRUE,
              result |-> [accuracy |-> acc_to_win_percent(eval_cp(fn.cp, 20)),
                          psych |-> to_win_percent(fn.cp),
                          positional |-> tac_to_win_percent(fn.cp),
                          atk_def |-> atk_to_win_percent(fn.cp),
                          resilience |-> res_to_win_percent(fn.cp),
                          resilience_played |-> res_to_win_percent(res_played_cp(fn.cp))]]
    /\ UNCHANGED <<SESSIONS, response, call>>

WinNext == CallWinPercent

SpecWin == WinInit /\ [][WinNext]_vars

----------------------------------------------------------------------------
(* The time-management score of calculate_psych_metrics (time_features.py). *)
(* Times are in tenths of a second, win percentages in hundredths,          *)
(* penalties in ten-thousandths of a point.  game_data is [analysis,        *)
(* time_per_move, time_metadata, pgn]; of the PGN text the function reads   *)
(* the Termination and Result tags.                                         *)

THRESHOLDS ==
    [bullet |-> [int_limit |-> 15, calc_start |-> 20, freeze |-> 50],
     blitz |-> [int_limit |-> 40, calc_start |-> 50, freeze |-> 120],
     rapid |-> [int_limit |-> 80, calc_start |-> 100, freeze |-> 300],
     classical |-> [int_limit |-> 150, calc_start |-> 200, freeze |-> 1200]]

t_cfg_of(game_data) == THRESHOLDS[game_data.time_metadata.category]

\* Lines 136-141: whether the tags say the colour lost on time
lost_on_time(pgn, color) ==
    /\ pgn.termination \in {"Time forfeit", "Lost on time"}
    /\ pgn.result = (IF color = "black" THEN "1-0" ELSE "0-1")

\* Line 143
count_of(game_data) == Min(Len(game_data.analysis), Len(game_data.time_per_move))

\* The colour of the ply of index i (from 0)
color_of(i) == IF i % 2 = 0 THEN "white" ELSE "black"

\* Line 155: the clocks after the plies of index below k
RECURSIVE clocks_after(_, _)
clocks_after(game_data, k) ==
    IF k = 0
    THEN [white |-> game_data.time_metadata.base, black |-> game_data.time_metadata.base]
    ELSE LET clocks == clocks_after(game_data, k - 1)
             color == color_of(k - 1)
         IN  [clocks EXCEPT ![color] = Max(1, clocks[color] - game_data.time_per_move[k]
                                                 + game_data.time_metadata.inc)]

\* Line 159: the mover's clock less the opponent's after the ply of index i
time_diff(game_data, i) ==
    LET clocks == clocks_after(game_data, i + 1)
    IN  clocks[color_of(i)] - clocks[OtherColor(color_of(i))]

\* Line 161
has_time_advantage(game_data, i) ==
    time_diff(game_data, i) * 100 > Max(30000, game_data.time_metadata.base * 15)

\* chronic_deficit with the penalty applied from the first ply on.
chronic_deficit_every_ply(game_data, i) == time_diff(game_data, i) < 0

\* Line 165: the ply is charged for being behind on the clock
chronic_deficit(game_data, i) == i >= 10 /\ time_diff(game_data, i) < 0

\* Lines 166-173
deficit_penalty(game_data, i) ==
    IF chronic_deficit(game_data, i)
    THEN (Abs(time_diff(game_data, i)) * 2000) \div Max(10, t_cfg_of(game_data).int_limit)
    ELSE 0

\* Lines 180-185 for a ply with two engine lines
cliff_diff(step) ==
    Abs(to_win_percent(step.top_lines[1].score) - to_win_percent(step.top_lines[2].score))

accuracy_loss(step) ==
    Max(0, to_win_percent(step.top_lines[1].score) - to_win_percent(step.played_eval))

\* Lines 177, 213-214: the rush penalty applies to the ply
rush_condition(game_data, i) ==
    LET step == game_data.analysis[i + 1]
    IN  /\ Len(step.top_lines) >= 2
        /\ cliff_diff(step) > 1500
        /\ game_data.time_per_move[i + 1] < t_cfg_of(game_data).int_limit
        /\ accuracy_loss(step) > 800

\* Lines 177, 221-222: the freeze penalty applies to the ply
freeze_condition(game_data, i) ==
    LET step == game_data.analysis[i + 1]
    IN  /\ Len(step.top_lines) >= 2
        /\ cliff_diff(step) < 500
        /\ game_data.time_per_move[i + 1] > t_cfg_of(game_data).freeze
        /\ accuracy_loss(step) > 400

\* Lines 210-229: penalty of the ply of index i
rush_freeze_penalty(game_data, i) ==
    LET step == game_data.analysis[i + 1]
        move_time == game_data.time_per_move[i + 1]
        t_cfg == t_cfg_of(game_data)
        p_val == accuracy_loss(step) * 2 + (IF accuracy_loss(step) > 2000 THEN 2000 ELSE 0)
        rush == IF rush_condition(game_data, i)
                THEN (p_val * 100 * Max(0, t_cfg.int_limit - move_time)) \div t_cfg.int_limit
                ELSE 0
        overtime == move_time - t_cfg.freeze
        freeze == IF freeze_condition(game_data, i)
                  THEN (IF has_time_advantage(game_data, i) THEN overtime * 200
                        ELSE overtime * 1000)
                  ELSE 0
    IN  rush + freeze

\* The plies of a colour among the first count
plies_of(game_data, color) ==
    {i \in 0..(count_of(game_data) - 1) : color_of(i) = color}

\* Lines 173, 229: tmg_penalty_sum of a colour after the plies of index
\* below k
RECURSIVE penalty_sum_upto(_, _, _)
penalty_sum_upto(game_data, color, k) ==
    IF k = 0 THEN 0
    ELSE penalty_sum_upto(game_data, color, k - 1)
         + (IF color_of(k - 1) = color
            THEN deficit_penalty(game_data, k - 1) + rush_freeze_penalty(game_data, k - 1)
            ELSE 0)

tmg_penalty_sum(game_data, color) == penalty_sum_upto(game_data, color, count_of(game_data))

\* Lines 244-256: TMG of a colour.  100.0 * exp(-avg / 12) is below 100
\* for every penalty above zero, and int() then gives at most 99.
TMG(game_data, color) ==
    LET moves == Cardinality(plies_of(game_data, color))
        sum == tmg_penalty_sum(game_data, color)
        decayed == IF moves > 0 /\ sum > 0
                   THEN Min(9999, exp_neg((sum \div moves) \div 12))
                   ELSE 10000
        tmg_final == IF lost_on_time(game_data.pgn, color)
                     THEN Min(decayed, 4000) - 1000
                     ELSE decayed
    IN  Max(0, Min(10000, tmg_final)) \div 100

\* Lines 253-257, the TMG entries
calculate_psych_metrics(game_data) ==
    [white |-> [TMG |-> TMG(game_data, "white")], black |-> [TMG |-> TMG(game_data, "black")]]

----------------------------------------------------------------------------
(* calculate_psych_metrics on its own: PsychInit draws the game_data and    *)
(* CallPsychMetrics applies the function.                                   *)

\* plies of the longest game
MaxPsychPlies == 12

\* A ply with two equal engine lines played as the first says, one with a
\* far better first line and a blunder played, one with equal lines and a
\* blunder played, and one with a single engine line
QuietStep ==
    [top_lines |-> <<[score |-> PyInt(20)], [score |-> PyInt(20)]>>, played_eval |-> PyInt(20)]

PsychSteps ==
    { QuietStep,
      [top_lines |-> <<[score |-> PyInt(300)], [score |-> PyInt(20)]>>, played_eval |-> PyInt(-300)],
      [top_lines |-> <<[score |-> PyInt(20)], [score |-> PyInt(20)]>>, played_eval |-> PyInt(-300)],
      [top_lines |-> <<[score |-> PyInt(20)]>>, played_eval |-> PyInt(20)] }

\* What parse_time_control yields for the tags 60, 300 and 600
TimeControls ==
    { [base |-> 600, inc |-> 0, category |-> "bullet"],
      [base |-> 3000, inc |-> 0, category |-> "blitz"],
      [base |-> 6000, inc |-> 0, category |-> "rapid"] }

PsychTags ==
    { [termination |-> "Normal", result |-> "1-0"],
      [termination |-> "Time forfeit", result |-> "1-0"],
      [termination |-> "Time forfeit", result |-> "0-1"] }

\* Games of n plies played in 3 seconds each as the engine says, but for
\* one ply, which takes move_time and is the given step
PsychGames ==
    { [analysis |-> [k \in 1..n |-> IF k = s THEN step ELSE QuietStep],
       time_per_move |-> [k \in 1..n |-> IF k = s THEN move_time ELSE 30],
       time_metadata |-> tc,
       pgn |-> tags] :
        n \in 0..MaxPsychPlies, s \in 1..MaxPsychPlies, step \in PsychSteps,
        move_time \in {5, 30, 100, 400}, tc \in TimeControls, tags \in PsychTags }

PsychInit ==
    /\ SESSIONS = <<>>
    /\ response = [kind |-> "none"]
    /\ call = NoCall
    /\ \E game_data \in PsychGames :
          fn = [name |-> "calculate_psych_metrics", game_data |-> game_data, returned |-> FALSE]

CallPsychMetrics ==
    /\ fn.name = "calculate_psych_metrics"
    /\ ~fn.returned
    /\ fn' = [name |-> fn.name, game_data |-> fn.game_data, returned |-> TRUE,
              result |-> calculate_psych_metrics(fn.game_data)]
    /\ UNCHANGED <<SESSIONS, response, call>>

PsychNext == CallPsychMetrics

SpecPsych == PsychInit /\ [][PsychNext]_vars

----------------------------------------------------------------------------
(* The components that read static_trace: which samples each of them        *)
(* appends for a ply.  A static_trace is missing (None or ''), a text on    *)
(* which parse_stockfish_trace raises (float() of a cell such as '-' or     *)
(* '1-2', trace_parser.py:45, 54), or a table, held as the mg values of its *)
(* Threats row in hundredths.                                               *)

TraceMissing == [kind |-> "missing"]
TraceBad == [kind |-> "bad"]
TraceTable(white, black, total) ==
    [kind |-> "table", white |-> white, black |-> black, total |-> total]

\* parse_stockfish_trace of a str: the dict, or the ValueError of float()
parse_stockfish_trace(trace_str) ==
    IF trace_str.kind = "bad" THEN Raise
    ELSE [kind |-> "dict", white |-> trace_str.white, black |-> trace_str.black,
          total |-> trace_str.total]

\* calculate_tactics_and_strategy: the samples appended in the iteration
\* whose step_curr is analysis[i] (i from 1)
tac_str_samples(analysis, i) ==
    LET step_curr == analysis[i]
        step_next == analysis[i + 1]
        trace_str_curr == step_curr.static_trace
        trace_str_next == step_next.static_trace
    IN  IF Len(step_curr.top_lines) < 1 \/ trace_str_curr.kind = "missing" THEN {}
        ELSE IF parse_stockfish_trace(trace_str_curr) = Raise THEN {}
        ELSE IF trace_str_next.kind # "missing" /\ parse_stockfish_trace(trace_str_next) = Raise
             THEN {}
        ELSE LET trace_curr == parse_stockfish_trace(trace_str_curr)
                 threats_mg == Abs(trace_curr.total)
                 opp_blundered ==
                     /\ i > 1
                     /\ Abs(tac_to_win_percent(analysis[i - 1].top_lines[1].score)
                            - tac_to_win_percent(analysis[i - 1].played_eval)) > 1500
                 is_tactical == threats_mg > 50 \/ opp_blundered
                 is_strategic ==
                     threats_mg < 40 /\ ~is_tactical /\ trace_str_next.kind # "missing"
             IN  (IF is_tactical THEN {"TAC"} ELSE {}) \cup (IF is_strategic THEN {"STR"} ELSE {})

\* calculate_attack_and_defense: the samples appended in the iteration
\* whose step_curr is analysis[i]
atk_def_samples(analysis, i) ==
    LET step_curr == analysis[i]
        trace_str_curr == step_curr.static_trace
        trace_str_next == analysis[i + 1].static_trace
        color == IF (i - 1) % 2 = 0 THEN "white" ELSE "black"
    IN  IF trace_str_curr.kind = "missing" \/ trace_str_next.kind = "missing"
           \/ Len(step_curr.top_lines) < 1
        THEN {}
        ELSE IF parse_stockfish_trace(trace_str_curr) = Raise
                \/ parse_stockfish_trace(trace_str_next) = Raise
        THEN {}
        ELSE LET trace_curr == parse_stockfish_trace(trace_str_curr)
                 my_threats_curr == trace_curr[color]
                 opp_threats_curr == trace_curr[OtherColor(color)]
             IN  (IF my_threats_curr > 80 THEN {"ATK"} ELSE {})
                 \cup (IF opp_threats_curr > 80 THEN {"DEF"} ELSE {})

\* calculate_resilience: the samples appended for analysis[i]
resilience_samples(analysis, i) ==
    LET step == analysis[i]
        is_white == (i - 1) % 2 = 0
        wp_white == res_to_win_percent(step.top_lines[1].score)
        current_player_wp == IF is_white THEN wp_white ELSE 10000 - wp_white
        eval_pressure == 400 <= current_player_wp /\ current_player_wp <= 3500
        threat_pressure ==
            /\ step.static_trace.kind # "missing"
            /\ parse_stockfish_trace(step.static_trace) # Raise
            /\ parse_stockfish_trace(step.static_trace)[IF is_white THEN "black" ELSE "white"] > 60
    IN  IF Len(step.top_lines) < 1 THEN {}
        ELSE IF eval_pressure \/ threat_pressure THEN {"RES"} ELSE {}

\* positional_features.py:96-98 and atk_def.py:58-62: the loss of a ply
tac_accuracy_loss(step) ==
    Max(0, tac_to_win_percent(step.top_lines[1].score) - tac_to_win_percent(step.played_eval))

atk_accuracy_loss(step) ==
    Max(0, atk_to_win_percent(step.top_lines[1].score) - atk_to_win_percent(step.played_eval))

\* positional_features.py:119: tac_score = 100.0 * math.exp(-0.10 *
\* accuracy_loss), in hundredths
tac_score(step) == exp_neg(tac_accuracy_loss(step) * 10)

\* The TAC sample appended in the iteration of analysis[i], None when none
\* is appended
tac_sample(analysis, i) ==
    IF "TAC" \in tac_str_samples(analysis, i) THEN Some(tac_score(analysis[i])) ELSE Null

\* The loss each model computes for every ply that has a next one
accuracy_losses(analysis) ==
    [i \in 1..(Len(analysis) - 1) |->
        [positional |-> tac_accuracy_loss(analysis[i]),
         atk_def |-> atk_accuracy_loss(analysis[i]),
         psych |-> accuracy_loss(analysis[i])]]

\* The samples of every ply in the three components
trace_samples(analysis) ==
    [positional |-> [i \in 1..(Len(analysis) - 1) |-> tac_str_samples(analysis, i)],
     atk_def |-> [i \in 1..(Len(analysis) - 1) |-> atk_def_samples(analysis, i)],
     resilience |-> [i \in 1..Len(analysis) |-> resilience_samples(analysis, i)]]

\* plies of the analysis lists
MaxTracePlies == 3

Traces == {TraceMissing, TraceBad, TraceTable(0, 0, 0), TraceTable(100, 0, 100)}

TracedItems ==
    { [played_eval |-> played_eval, top_lines |-> <<[score |-> score], [score |-> score]>>,
       static_trace |-> trace] :
        played_eval \in {PyInt(20), PyInt(-300)}, score \in {PyInt(20), PyInt(-300)},
        trace \in Traces }

TraceInit ==
    /\ SESSIONS = <<>>
    /\ response = [kind |-> "none"]
    /\ call = NoCall
    /\ \E n \in 2..MaxTracePlies : \E analysis \in [1..n -> TracedItems] :
          fn = [name |-> "trace_samples", analysis |-> analysis, returned |-> FALSE]

CallTraceModels ==
    /\ fn.name = "trace_samples"
    /\ ~fn.returned
    /\ fn' = [name |-> fn.name, analysis |-> fn.analysis, returned |-> TRUE,
              result |-> trace_samples(fn.analysis),
              losses |-> accuracy_losses(fn.analysis),
              tac_scores |-> [i \in 1..(Len(fn.analysis) - 1) |-> tac_sample(fn.analysis, i)]]
    /\ UNCHANGED <<SESSIONS, response, call>>

TraceNext == CallTraceModels

SpecTrace == TraceInit /\ [][TraceNext]_vars

----------------------------------------------------------------------------
(* calibrate_score on its own: the arguments are drawn in CalInit and       *)
(* CallCalibrate applies the function.                                      *)

\* Raw scores in hundredths: every whole score and some two-decimal ones.
CalRawScores == {r * 100 : r \in 0..100} \cup {1, 4999, 8731, 9999}

\* Ratings on both sides of every band edge of get_elo_target.
CalRatings ==
    {-250, -1, 0, 1, 400, 401, 800, 801, 1200, 1201, 1600, 1601, 2000, 2001,
     2600, 2601, 3000, 3001, 3200, 3201, 4000}

CalInit ==
    /\ SESSIONS = <<>>
    /\ response = [kind |-> "none"]
    /\ call = NoCall
    /\ fn \in { [name |-> "calibrate_score", raw_score |-> raw, rating |-> rating,
                 metric_name |-> m, returned |-> FALSE, result |-> Null] :
                raw \in {Null} \cup {Some(r) : r \in CalRawScores},
                rating \in CalRatings, m \in MetricNames }

CallCalibrate ==
    /\ fn.name = "calibrate_score"
    /\ ~fn.returned
    /\ fn' = [fn EXCEPT !.returned = TRUE,
                        !.result = calibrate_score(fn.raw_score, fn.rating, fn.metric_name)]
    /\ UNCHANGED <<SESSIONS, response, call>>

CalNext == CallCalibrate

SpecCal == CalInit /\ [][CalNext]_vars

----------------------------------------------------------------------------
(* _calculate_aggregates on its own: AggInit draws a session's history,     *)
(* one calibrated MetricVector per game, and CallAggregates applies the     *)
(* function to the session.                                                 *)

\* A game that failed, a game whose endgame bucket was empty, a game of a
\* strong player in which the accuracy model had no ply of the player, and
\* a weak game of a beginner.
AggGames ==
    { Game("none", 1200, BaseGame.acc, BaseGame.psych, BaseGame.res, BaseGame.pos, BaseGame.atk),
      Game("white", 1200, AccOk(Some(8731), Some(9000), Some(8250), Null),
           PsychOk(50, 50, 100), ResOk(<<100, 37>>), PosOk(50, 50), AtkOk(50, 50)),
      Game("black", 2700, AccOk(Null, Null, Null, Null),
           PsychOk(77, 64, 30), ResOk(<<>>), PosOk(50, 50), AtkOk(50, 50)),
      Game("white", 0, AccOk(Some(3120), Some(4000), Some(2875), Some(1010)),
           PsychOk(50, 41, 12), ResOk(<<0>>), PosOk(23, 50), AtkOk(50, 7)) }

\* Their calibrated MetricVectors.
AggVectors == {game_metrics_of(g) : g \in AggGames}

\* The session after the games whose vectors are history, appended in order.
session_after(history) ==
    [games_processed |-> Len(history),
     metrics_list |-> [m \in MetricNames |-> [i \in 1..Len(history) |-> history[i][m]]]]

\* A history of n games whose outcomes repeat the pattern.
periodic(pattern, n) == [i \in 1..n |-> pattern[((i - 1) % Len(pattern)) + 1]]

AggInit ==
    /\ \E period \in 1..MaxPeriod, n \in 0..MaxSamples :
          \E pattern \in [1..period -> AggVectors] :
             SESSIONS = ("alice" :> session_after(periodic(pattern, n)))
    /\ response = [kind |-> "none"]
    /\ call = NoCall
    /\ fn = [name |-> "_calculate_aggregates", returned |-> FALSE]

CallAggregates ==
    /\ fn.name = "_calculate_aggregates"
    /\ ~fn.returned
    /\ fn' = [name |-> "_calculate_aggregates", returned |-> TRUE,
              result |-> _calculate_aggregates(SESSIONS["alice"])]
    /\ SESSIONS' = [SESSIONS EXCEPT !["alice"] = session_after_aggregates(SESSIONS["alice"])]
    /\ UNCHANGED <<response, call>>

\* A second call on the session the first call left
CallAggregatesAgain ==
    /\ fn.name = "_calculate_aggregates"
    /\ fn.returned
    /\ "second" \notin DOMAIN fn
    /\ fn' = [name |-> "_calculate_aggregates", returned |-> TRUE, result |-> fn.result,
              second |-> _calculate_aggregates(SESSIONS["alice"])]
    /\ SESSIONS' = [SESSIONS EXCEPT !["alice"] = session_after_aggregates(SESSIONS["alice"])]
    /\ UNCHANGED <<response, call>>

AggNext == CallAggregates \/ CallAggregatesAgain

SpecAgg == AggInit /\ [][AggNext]_vars

----------------------------------------------------------------------------
(* process_game_result under a threaded server: two requests for the same   *)
(* player run the handler at once on the shared SESSIONS dict.  No lock is  *)
(* taken in app.py, so the requests interleave between any two accesses of  *)
(* the session: the read and the write of games_processed += 1, each        *)
(* append, each list read of _calculate_aggregates, and the read of         *)
(* games_processed for the response.  Here call and response map a request  *)
(* thread to its locals and to its response; alice has a session and bob    *)
(* has none.                                                                *)

Threads == {"t1", "t2"}

\* The game the two requests submit (a client that sends a game twice): a
\* normal game or one that fails.
ConcGames ==
    { BaseGame,
      Game("none", 1200, BaseGame.acc, BaseGame.psych, BaseGame.res, BaseGame.pos, BaseGame.atk) }

\* The locals of a request before its first statement (game_metrics as
\* initialised at app.py:260).
StartLocals(username, g) ==
    [pc |-> "start", username |-> username, game |-> g,
     game_metrics |-> [m \in MetricNames |-> Some(0)],
     loaded |-> 0, i |-> 1,
     aggregates |-> [m \in MetricNames |-> 0],
     seen_min |-> 0, seen_max |-> 0]

ConcInit ==
    /\ SESSIONS = ("alice" :> new_session)
    /\ response = [t \in Threads |-> [kind |-> "none"]]
    /\ \E u \in Users, g \in ConcGames :
          call = ("t1" :> StartLocals("alice", g)) @@ ("t2" :> StartLocals(u, g))
    /\ fn = NoFn

\* Lines 246-310: the session lookup and the game's metrics (locals only).
ComputeMetrics(t) ==
    /\ call[t].pc = "start"
    /\ IF call[t].username \notin DOMAIN SESSIONS
       THEN /\ response' = [response EXCEPT ![t] =
                              [kind |-> "error", error |-> "Session expired", code |-> 400]]
            /\ call' = [call EXCEPT ![t].pc = "done"]
       ELSE /\ call' = [call EXCEPT ![t].pc = "load",
                                    ![t].game_metrics = game_metrics_of(call[t].game)]
            /\ UNCHANGED response
    /\ UNCHANGED <<SESSIONS, fn>>

\* Line 312, session["games_processed"] += 1: the read ...
LoadCount(t) ==
    /\ call[t].pc = "load"
    /\ call' = [call EXCEPT ![t].pc = "store",
                            ![t].loaded = SESSIONS[call[t].username].games_processed]
    /\ UNCHANGED <<SESSIONS, response, fn>>

\* ... and the write.
StoreCount(t) ==
    /\ call[t].pc = "store"
    /\ SESSIONS' = [SESSIONS EXCEPT ![call[t].username].games_processed = call[t].loaded + 1]
    /\ call' = [call EXCEPT ![t].pc = "append", ![t].i = 1]
    /\ UNCHANGED <<response, fn>>

\* Lines 313-316: one iteration of the loop over METRICS.
AppendSample(t) ==
    /\ call[t].pc = "append"
    /\ LET m == METRICS[call[t].i]
       IN  SESSIONS' = [SESSIONS EXCEPT ![call[t].username].metrics_list[m] =
                           Append(@, call[t].game_metrics[m])]
    /\ call' = IF call[t].i < Len(METRICS)
               THEN [call EXCEPT ![t].i = @ + 1]
               ELSE [call EXCEPT ![t].pc = "aggregate", ![t].i = 1]
    /\ UNCHANGED <<response, fn>>

\* Lines 334-364 as called at line 319: one iteration of the loop of
\* _calculate_aggregates, which reads one sample list.  seen_min and
\* seen_max record the shortest and the longest list read so far.
AggregateMetric(t) ==
    /\ call[t].pc = "aggregate"
    /\ LET m == METRICS[call[t].i]
           samples == SESSIONS[call[t].username].metrics_list[m]
           first == call[t].i = 1
           step == [call EXCEPT ![t].aggregates[m] = aggregate_metric(samples),
                                ![t].seen_min = IF first THEN Len(samples) ELSE Min(@, Len(samples)),
                                ![t].seen_max = IF first THEN Len(samples) ELSE Max(@, Len(samples))]
       IN  call' = IF call[t].i < Len(METRICS)
                   THEN [step EXCEPT ![t].i = @ + 1]
                   ELSE [step EXCEPT ![t].pc = "respond", ![t].i = 1]
    /\ UNCHANGED <<SESSIONS, response, fn>>

\* Lines 321-329: the overall score and the response, which reads
\* games_processed again.
Respond(t) ==
    /\ call[t].pc = "respond"
    /\ response' = [response EXCEPT ![t] =
                      [kind |-> "game",
                       games_processed |-> SESSIONS[call[t].username].games_processed,
                       metrics |-> call[t].aggregates,
                       overall |-> overall_of(call[t].aggregates)]]
    /\ call' = [call EXCEPT ![t].pc = "done"]
    /\ UNCHANGED <<SESSIONS, fn>>

ConcNext ==
    \E t \in Threads :
        \/ ComputeMetrics(t)
        \/ LoadCount(t)
        \/ StoreCount(t)
        \/ AppendSample(t)
        \/ AggregateMetric(t)
        \/ Respond(t)

SpecConc == ConcInit /\ [][ConcNext]_vars

----------------------------------------------------------------------------
(* Vocabulary of the properties *)

\* The last transition was a process_game_result call that reached the append.
Ingested == call.op = "process_game_result" /\ call.appended

\* A metric function of the game raised or returned no per-colour result,
\* or the player's colour was not resolved.
MetricFailure(g) ==
    \/ g.user_color = "none"
    \/ g.acc.kind \in {"raise", "none"}
    \/ g.psych.kind = "raise"
    \/ g.res.kind = "raise"
    \/ g.pos.kind = "raise"
    \/ g.atk.kind = "raise"

Families == {"acc", "psych", "res", "pos", "atk"}

FamilyFailed(g, f) ==
    IF f = "acc" THEN g.acc.kind \in {"raise", "none"} ELSE g[f].kind = "raise"

FamilyMetrics(f) ==
    CASE f = "acc" -> {"ACC", "OPN", "MID", "END"}
      [] f = "psych" -> {"CAL", "INT", "TMG"}
      [] f = "res" -> {"RES"}
      [] f = "pos" -> {"TAC", "STR"}
      [] f = "atk" -> {"ATK", "DEF"}

\* The raw score a family computed for a metric, in hundredths; for RES the
\* value calculate_resilience returned, before process_game_result looks at it.
ComputedRaw(g, m) ==
    CASE m = "ACC" -> g.acc.accuracy
      [] m = "OPN" -> g.acc.opening
      [] m = "MID" -> g.acc.middlegame
      [] m = "END" -> g.acc.endgame
      [] m = "CAL" -> Some(g.psych.CAL * 100)
      [] m = "INT" -> Some(g.psych.INT * 100)
      [] m = "TMG" -> Some(g.psych.TMG * 100)
      [] m = "RES" -> IF g.res.events = <<>> THEN Null
                      ELSE Some((SumSeq(g.res.events) \div Len(g.res.events)) * 100)
      [] m = "TAC" -> Some(g.pos.TAC * 100)
      [] m = "STR" -> Some(g.pos.STR * 100)
      [] m = "ATK" -> Some(g.atk.ATK * 100)
      [] m = "DEF" -> Some(g.atk.DFN * 100)

IsScore(v) == v \in 0..100

\* The non-null samples of a list, in order.
NonNull(samples) ==
    LET kept == SelectSeq(samples, LAMBDA v : v # Null)
    IN  [i \in 1..Len(kept) |-> kept[i][1]]

SeqMin(s) == CHOOSE x \in {s[i] : i \in 1..Len(s)} : \A i \in 1..Len(s) : x <= s[i]
SeqMax(s) == CHOOSE x \in {s[i] : i \in 1..Len(s)} : \A i \in 1..Len(s) : x >= s[i]

\* s without the first occurrence of x
RemoveOne(s, x) ==
    LET k == CHOOSE i \in 1..Len(s) : s[i] = x /\ \A j \in 1..(i - 1) : s[j] # x
    IN  SubSeq(s, 1, k - 1) \o SubSeq(s, k + 1, Len(s))

\* The sum of the k lowest (highest) values by repeated selection.
RECURSIVE SumLowest(_, _)
SumLowest(s, k) ==
    IF k = 0 THEN 0 ELSE SeqMin(s) + SumLowest(RemoveOne(s, SeqMin(s)), k - 1)

RECURSIVE SumHighest(_, _)
SumHighest(s, k) ==
    IF k = 0 THEN 0 ELSE SeqMax(s) + SumHighest(RemoveOne(s, SeqMax(s)), k - 1)

\* q is the quotient sum / count truncated to an integer (sum >= 0, count > 0)
IsTruncatedMean(q, sum, count) == q * count <= sum /\ sum < (q + 1) * count

----------------------------------------------------------------------------
(* C1 *)

\* C1: a failed metric computation never aborts ingestion.  Every
\* process_game_result call for a player with a session whose game has a
\* failing metric function (or an unresolved colour) completes: it advances
\* games_processed by exactly 1, appends exactly one sample to each of the
\* 12 metric lists, returns the aggregates and leaves the other players'
\* sessions alone; and every ingested game without a failure, also after a
\* failed one, is recorded with the calibrated scores its metric functions
\* computed (RES aside, which process_game_result rewrites before it
\* calibrates it).
C1_FailedGameIsIngested ==
    [][ (call'.op = "process_game_result" /\ call'.appended) =>
          LET u == call'.username
              g == call'.game
          IN  /\ u \in DOMAIN SESSIONS
              /\ MetricFailure(g) =>
                    /\ SESSIONS'[u].games_processed = SESSIONS[u].games_processed + 1
                    /\ \A m \in MetricNames :
                          Len(SESSIONS'[u].metrics_list[m]) = Len(SESSIONS[u].metrics_list[m]) + 1
                    /\ response'.kind = "game"
                    /\ response'.games_processed = SESSIONS'[u].games_processed
                    /\ DOMAIN response'.metrics = MetricNames
                    /\ \A v \in Users \ {u} :
                          (v \in DOMAIN SESSIONS) =>
                              (v \in DOMAIN SESSIONS' /\ SESSIONS'[v] = SESSIONS[v])
              /\ ~MetricFailure(g) =>
                    \A m \in MetricNames \ {"RES"} :
                        LET list == SESSIONS'[u].metrics_list[m]
                        IN  list[Len(list)] = calibrate_score(ComputedRaw(g, m), g.rating, m)
      ]_vars

\* A game was ingested normally after a failed game had been ingested.
C1_Witness ==
    /\ Ingested
    /\ ~MetricFailure(call.game)
    /\ response.kind = "game"
    /\ \E u \in DOMAIN SESSIONS :
          /\ SESSIONS[u].games_processed >= 1
          /\ \A m \in MetricNames : SESSIONS[u].metrics_list[m][1] = Some(0)
          /\ (u = call.username => SESSIONS[u].games_processed = 2)

----------------------------------------------------------------------------
(* C2 *)

\* C2: a game whose metric computation failed makes no contribution to the
\* profile: every metric's stable estimate after the game equals the one
\* before it.
C2_FailedGameNoContribution ==
    [][ (call'.op = "process_game_result" /\ call'.appended /\ MetricFailure(call'.game)) =>
          _calculate_aggregates(SESSIONS'[call'.username])
              = _calculate_aggregates(SESSIONS[call'.username])
      ]_vars

----------------------------------------------------------------------------
(* C3 *)

\* C3: a failure in one metric family is contained: when exactly one of the
\* five computations of a game fails, the fields of the other families in
\* the game's MetricVector are their computed, calibrated values.
C3_FailureContained ==
    (/\ Ingested
     /\ call.game.user_color # "none"
     /\ Cardinality({f \in Families : FamilyFailed(call.game, f)}) = 1)
    => \A f \in Families :
          ~FamilyFailed(call.game, f) =>
              \A m \in FamilyMetrics(f) :
                  call.game_metrics[m]
                      = calibrate_score(ComputedRaw(call.game, m), call.game.rating, m)

----------------------------------------------------------------------------
(* C4 *)

\* C4: for every metric name and rating, calibrate_score of a null raw
\* score is null, and of a non-null raw score is non-null.
C4_NullIffNull ==
    (fn.name = "calibrate_score" /\ fn.returned) =>
        /\ (fn.raw_score = Null => fn.result = Null)
        /\ (fn.raw_score # Null => fn.result # Null /\ Len(fn.result) = 1)

\* calibrate_score has returned for a null raw score.
C4_Witness ==
    fn.name = "calibrate_score" /\ fn.returned /\ fn.raw_score = Null /\ fn.result = Null

----------------------------------------------------------------------------
(* C5 *)

\* C5: when the player had no pressure ply in a game (calculate_resilience
\* returned None for the colour), the RES field recorded for that game is
\* null.
C5_NullResilienceRecordedNull ==
    (/\ Ingested
     /\ ~MetricFailure(call.game)
     /\ call.game.res.events = <<>>)
    => LET list == SESSIONS[call.username].metrics_list["RES"]
       IN  call.game_metrics["RES"] = Null /\ list[Len(list)] = Null

----------------------------------------------------------------------------
(* C6 *)

\* C6: every stored sample is null or an integer in [0,100], and every
\* per-metric aggregate and the overall score returned is an integer in
\* [0,100].
C6_ScoresInRange ==
    /\ \A u \in DOMAIN SESSIONS : \A m \in MetricNames :
          \A i \in 1..Len(SESSIONS[u].metrics_list[m]) :
              LET v == SESSIONS[u].metrics_list[m][i]
              IN  v = Null \/ (Len(v) = 1 /\ IsScore(v[1]))
    /\ response.kind \in {"game", "ready"} =>
          /\ \A m \in MetricNames : IsScore(response.metrics[m])
          /\ IsScore(response.overall)

\* A game response over a session that holds a null sample and a number.
C6_Witness ==
    /\ response.kind = "game"
    /\ response.overall > 0
    /\ \E u \in DOMAIN SESSIONS : \E m \in MetricNames :
          \E i, j \in 1..Len(SESSIONS[u].metrics_list[m]) :
              /\ SESSIONS[u].metrics_list[m][i] = Null
              /\ SESSIONS[u].metrics_list[m][j] # Null

----------------------------------------------------------------------------
(* C7 *)

\* The rating bands as the claim lists them, in tenths.
BandAnchor(rating) ==
    CASE rating <= 400 -> 150
      [] rating > 400 /\ rating <= 800 -> 375
      [] rating > 800 /\ rating <= 1200 -> 500
      [] rating > 1200 /\ rating <= 1600 -> 600
      [] rating > 1600 /\ rating <= 2000 -> 725
      [] rating > 2000 /\ rating <= 2600 -> 850
      [] rating > 2600 /\ rating <= 3000 -> 925
      [] rating > 3000 -> 980

----------------------------------------------------------------------------
(* C8 *)

\* C8: with n non-null samples of a metric: none gives 0; n < 5 gives the
\* truncated mean; n >= 5 gives the truncated mean of what is left after
\* dropping the floor(n/10) lowest and the floor(n/10) highest samples.
C8_StableEstimate ==
    (fn.name = "_calculate_aggregates" /\ fn.returned) =>
        \A m \in MetricNames :
            LET valid == NonNull(SESSIONS["alice"].metrics_list[m])
                n == Len(valid)
                k == IF n < 5 THEN 0 ELSE n \div 10
                rest == SumSeq(valid) - SumLowest(valid, k) - SumHighest(valid, k)
            IN  IF n = 0 THEN fn.result[m] = 0
                ELSE IsTruncatedMean(fn.result[m], rest, n - 2 * k)

\* The aggregator has run on a list with a null sample and at least 10
\* non-null samples, and dropping the extremes changed the estimate.
C8_Witness ==
    /\ fn.name = "_calculate_aggregates" /\ fn.returned
    /\ \E m \in MetricNames :
          LET samples == SESSIONS["alice"].metrics_list[m]
              valid == NonNull(samples)
          IN  /\ Len(valid) >= 10
              /\ Len(valid) < Len(samples)
              /\ fn.result[m] # SumSeq(valid) \div Len(valid)

----------------------------------------------------------------------------
(* C9 *)

\* The sample list left after removing one occurrence of the maximum and
\* one of the minimum of the non-null samples.
Reduced(valid) ==
    LET r == RemoveOne(RemoveOne(valid, SeqMax(valid)), SeqMin(valid))
    IN  [i \in 1..Len(r) |-> Some(r[i])]

\* C9 as stated: for every list of at least 5 non-null samples, removing
\* one occurrence of the maximum and one of the minimum does not decrease
\* the aggregate.
C9_MonotoneTrim ==
    (fn.name = "_calculate_aggregates" /\ fn.returned) =>
        \A m \in MetricNames :
            LET valid == NonNull(SESSIONS["alice"].metrics_list[m])
            IN  Len(valid) >= 5 => aggregate_metric(Reduced(valid)) >= fn.result[m]

\* C9 amended: removing one maximum and one minimum does not decrease the
\* aggregate of a list of 5 to 9 non-null samples whose mean is at least
\* the midpoint of its minimum and maximum (2*sum >= n*(min+max)), and
\* leaves the aggregate of a list of n >= 10 samples with n mod 10 in {0,1}
\* unchanged.
C9_MonotoneTrimAmended ==
    (fn.name = "_calculate_aggregates" /\ fn.returned) =>
        \A m \in MetricNames :
            LET valid == NonNull(SESSIONS["alice"].metrics_list[m])
                n == Len(valid)
            IN  /\ (n \in 5..9 /\ 2 * SumSeq(valid) >= n * (SeqMin(valid) + SeqMax(valid)))
                       => aggregate_metric(Reduced(valid)) >= fn.result[m]
                /\ (n >= 10 /\ n % 10 \in {0, 1})
                       => aggregate_metric(Reduced(valid)) = fn.result[m]

\* The aggregator has run on 10 non-null samples that are not all equal.
C9_Witness ==
    /\ fn.name = "_calculate_aggregates" /\ fn.returned
    /\ \E m \in MetricNames :
          LET valid == NonNull(SESSIONS["alice"].metrics_list[m])
          IN  Len(valid) = 10 /\ SeqMin(valid) < SeqMax(valid)

----------------------------------------------------------------------------
(* C10 *)

RECURSIVE SumOver(_, _)
SumOver(f, S) ==
    IF S = {} THEN 0
    ELSE LET x == CHOOSE y \in S : TRUE IN f[x] + SumOver(f, S \ {x})

\* C10: the overall score returned by process_game_result is the truncated
\* mean of exactly the non-zero per-metric stable estimates of the session,
\* and 0 when all twelve are zero.
C10_OverallOfNonZero ==
    response.kind = "game" =>
        LET estimates == _calculate_aggregates(SESSIONS[call.username])
            nonzero == {m \in MetricNames : estimates[m] # 0}
        IN  /\ response.metrics = estimates
            /\ IF nonzero = {} THEN response.overall = 0
               ELSE IsTruncatedMean(response.overall, SumOver(estimates, nonzero),
                                    Cardinality(nonzero))

\* A game response in which some estimate is 0 and some is not.
C10_Witness ==
    /\ response.kind = "game"
    /\ \E m \in MetricNames : response.metrics[m] = 0
    /\ \E m \in MetricNames : response.metrics[m] > 0

----------------------------------------------------------------------------
(* C11 *)

\* The session of u in the next state extends the one in this state: the
\* count has not decreased and every sample list has the old one as a prefix.
HistoryKept(u) ==
    /\ u \in DOMAIN SESSIONS'
    /\ SESSIONS'[u].games_processed >= SESSIONS[u].games_processed
    /\ \A m \in MetricNames :
          LET old == SESSIONS[u].metrics_list[m]
              new == SESSIONS'[u].metrics_list[m]
          IN  Len(new) >= Len(old) /\ SubSeq(new, 1, Len(old)) = old

\* C11 as stated: across any sequence of init_session and
\* process_game_result calls, once a session exists for a username, its
\* games_processed and the length of each metric sample list never decrease
\* and the samples already appended stay in place.
C11_HistoryNeverShortened ==
    [][ \A u \in DOMAIN SESSIONS : HistoryKept(u) ]_vars

\* C11 amended: a session is never removed, process_game_result and the
\* init_session calls that fail never shorten a history, and the one call
\* that does is an init_session that succeeds for the same username, which
\* replaces the session by an empty one.
C11_HistoryKeptUntilInit ==
    [][ \A u \in DOMAIN SESSIONS :
          \/ HistoryKept(u)
          \/ /\ response'.kind = "ready"
             /\ response'.username = u
             /\ u \in DOMAIN SESSIONS'
             /\ SESSIONS'[u] = new_session
      ]_vars

\* A second game was appended to a history, after the first one.
C11_Witness ==
    /\ Ingested
    /\ SESSIONS[call.username].games_processed = 2
    /\ \A m \in MetricNames : Len(SESSIONS[call.username].metrics_list[m]) = 2

----------------------------------------------------------------------------
(* C12 *)

\* Both requests are for the same player and have returned.
BothDone(u) == \A t \in Threads : call[t].username = u /\ call[t].pc = "done"

\* C12: when two process_game_result calls for the same player interleave,
\* each call returns aggregates computed over metric lists that all had the
\* length games_processed it returns, and after both calls games_processed
\* equals the number of samples in every metric list.
C12_InterleavingConsistent ==
    \A u \in DOMAIN SESSIONS :
        /\ \A t \in Threads :
              (call[t].username = u /\ call[t].pc = "done") =>
                  /\ call[t].seen_min = response[t].games_processed
                  /\ call[t].seen_max = response[t].games_processed
        /\ BothDone(u) =>
              \A m \in MetricNames :
                  Len(SESSIONS[u].metrics_list[m]) = SESSIONS[u].games_processed

----------------------------------------------------------------------------
(* C13 *)

\* C13 (scenario A): for a game with an empty analysis list, scoring raises
\* nothing past process_game_result, which answers with the aggregates, and
\* each of the twelve fields of the game's MetricVector, as computed and as
\* recorded in the session, is null or 0.
C13_EmptyAnalysisAllNullOrZero ==
    (Ingested /\ call.game.acc.kind = "none") =>
        /\ response.kind = "game"
        /\ \A m \in MetricNames :
              LET list == SESSIONS[call.username].metrics_list[m]
              IN  /\ call.game_metrics[m] \in {Null, Some(0)}
                  /\ list[Len(list)] = call.game_metrics[m]

\* A game with an empty analysis list, of a player whose colour was
\* resolved, has been ingested.
C13_Witness ==
    /\ Ingested
    /\ call.game = EmptyAnalysisGame("white", 1200)
    /\ response.kind = "game"

----------------------------------------------------------------------------
(* C14                                                                      *)

AccReturned == fn.name = "calculate_game_phase_accuracy" /\ fn.returned
AccScored == AccReturned /\ fn.result.kind = "ok"

Categories == {"accuracy", "opening", "middlegame", "endgame"}

\* Every ply's played_eval is the score of its first engine line.
PlayedTop(analysis) ==
    \A i \in 1..Len(analysis) : analysis[i].top_lines[1].score = analysis[i].played_eval

\* Every score of a non-empty bucket is 100.
AllHundred(result) ==
    \A color \in {"white", "black"}, cat \in Categories :
        result[color][cat] # Null => result[color][cat] = Some(10000)

\* No analysed ply lowers the win probability of its mover (White on the
\* odd plies) below the one of the ply before, 20 centipawns at the start.
NoPlyLoses(analysis) ==
    LET wp == win_percents_of(analysis)
    IN  \A i \in 1..Len(analysis) :
            IF (i - 1) % 2 = 0 THEN wp[i + 1] >= wp[i] ELSE wp[i + 1] <= wp[i]

\* C14 as stated: when every ply's played_eval equals its top line score,
\* ACC and every non-empty OPN/MID/END bucket of both colours are 100.
C14_TopMoveGivesHundred ==
    (AccScored /\ PlayedTop(fn.game_data.analysis)) => AllHundred(fn.result)

\* C14 amended: when every ply's played_eval equals its top line score and
\* no ply lowers its mover's win probability below that of the ply before,
\* ACC and every non-empty OPN/MID/END bucket of both colours are 100.
C14_NoLossGivesHundred ==
    (AccScored /\ PlayedTop(fn.game_data.analysis) /\ NoPlyLoses(fn.game_data.analysis))
        => AllHundred(fn.result)

\* A game of three plies whose evaluations move (up for White, down for
\* Black), played as the top lines say, with both colours scored.
C14_Witness ==
    /\ AccScored
    /\ PlayedTop(fn.game_data.analysis)
    /\ NoPlyLoses(fn.game_data.analysis)
    /\ Len(fn.game_data.analysis) = 3
    /\ fn.game_data.analysis[1].played_eval = PyInt(150)
    /\ fn.game_data.analysis[2].played_eval = PyInt(-300)
    /\ fn.result.white.accuracy = Some(10000)
    /\ fn.result.black.accuracy = Some(10000)

----------------------------------------------------------------------------
(* C16                                                                      *)

MoveReturned == fn.name = "calculate_move_accuracy" /\ fn.returned

\* C16: calculate_move_accuracy returns exactly 100 when wp_after >=
\* wp_before, and a value in [0,100] for every other pair.
C16_MoveAccuracyRange ==
    MoveReturned =>
        IF fn.wp_after >= fn.wp_before THEN fn.result = 10000
        ELSE fn.result >= 0 /\ fn.result <= 10000

\* A move that loses the whole win percentage, scored 0 by the lower clamp.
C16_Witness ==
    /\ MoveReturned
    /\ fn.wp_after < fn.wp_before
    /\ fn.wp_before - fn.wp_after > 9000
    /\ fn.result = 0

----------------------------------------------------------------------------
(* C19                                                                      *)

\* Non-pawn, non-king material of both sides: Q=9, R=5, B=3, N=3
MaterialOf(board) ==
    LET side(p) == 9 * p.Q + 5 * p.R + 3 * p.B + 3 * p.N
    IN  side(board.white) + side(board.black)

\* The label of the rule for the position before the k-th move of a PGN
PhaseLabel(pgn, k) ==
    IF MaterialOf(pgn.boards[k]) <= 20 THEN "endgame"
    ELSE IF fullmove_at(pgn, k) <= 15 THEN "opening"
    ELSE "middlegame"

\* How many times ply k is stored in a bucket
Stored(bucket, k) == Cardinality({i \in 1..Len(bucket) : bucket[i] = k})

\* C19: every replayed ply is stored once in the phase bucket its label
\* names (endgame if material <= 20, else opening if the full-move number
\* is <= 15, else middlegame; position before the move) and once in the
\* overall bucket, both of the mover's colour, and nowhere else; each
\* overall bucket has the size of its three phase buckets together.
C19_OnePhasePerPly ==
    AccScored =>
        LET pgn == fn.game_data.pgn
            plies == 1..Min(Len(pgn.boards), Len(fn.game_data.analysis))
        IN  /\ \A k \in plies, color \in {"white", "black"}, cat \in Phases \cup {"all"} :
                  Stored(fn.buckets[color][cat], k) =
                      IF color = turn_at(pgn, k) /\ cat \in {"all", PhaseLabel(pgn, k)}
                      THEN 1 ELSE 0
            /\ \A color \in {"white", "black"}, cat \in Phases \cup {"all"} :
                  \A i \in 1..Len(fn.buckets[color][cat]) : fn.buckets[color][cat][i] \in plies
            /\ \A color \in {"white", "black"} :
                  Len(fn.buckets[color]["all"]) =
                      Len(fn.buckets[color]["opening"]) + Len(fn.buckets[color]["middlegame"])
                      + Len(fn.buckets[color]["endgame"])

\* A game replayed from move 15 through the three phases: two opening
\* plies, a middlegame ply at move 16, and an endgame ply after a capture
\* that leaves material 20.
C19_Witness ==
    /\ AccScored
    /\ fn.buckets["white"]["opening"] = <<1>>
    /\ fn.buckets["black"]["opening"] = <<2>>
    /\ fn.buckets["white"]["middlegame"] = <<3>>
    /\ fn.buckets["black"]["endgame"] = <<4>>
    /\ fn.buckets["black"]["all"] = <<2, 4>>
    /\ MaterialOf(fn.game_data.pgn.boards[3]) = 23
    /\ MaterialOf(fn.game_data.pgn.boards[4]) = 20

----------------------------------------------------------------------------
(* C20                                                                      *)

\* ACC, OPN, MID and END of both colours in a returned value, all None
\* when no dict of scores is returned
ScoresOf(result) ==
    [color \in {"white", "black"} |->
        [cat \in Categories |-> IF result.kind = "ok" THEN result[color][cat] ELSE Null]]

\* C20: with more analysis entries than the PGN has moves, the accuracy
\* results equal those of the same game with the analysis list cut to as
\* many entries as the PGN has moves.
C20_ExtraEntriesIgnored ==
    (AccScored /\ Len(fn.game_data.analysis) > Len(fn.game_data.pgn.boards)) =>
        LET m == Len(fn.game_data.pgn.boards)
            truncated == [analysis |-> SubSeq(fn.game_data.analysis, 1, m),
                          pgn |-> fn.game_data.pgn]
        IN  ScoresOf(fn.result) = ScoresOf(calculate_game_phase_accuracy(truncated))

----------------------------------------------------------------------------
(* C17                                                                      *)

WinReturned == fn.name = "to_win_percent" /\ fn.returned

IsMateMarker(cp) == cp.type = "str" /\ (Contains(cp.s, "M") \/ Contains(cp.s, "#"))

\* C17: every variant maps a mate marker to exactly 100, or to exactly 0
\* when the marker carries a minus sign, wherever the sign stands, so all
\* variants agree.
C17_MateMarkersAgree ==
    (WinReturned /\ IsMateMarker(fn.cp)) =>
        \A variant \in DOMAIN fn.result :
            fn.result[variant] = IF Contains(fn.cp.s, "-") THEN 0 ELSE 10000

----------------------------------------------------------------------------
(* C18                                                                      *)

TraceReturned == fn.name = "trace_samples" /\ fn.returned

\* C18: a ply whose static_trace fails to parse gives, in every component
\* and for every ply, the samples the same game gives with that trace
\* missing.
C18_ParseFailureAsMissing ==
    TraceReturned =>
        \A p \in 1..Len(fn.analysis) :
            fn.analysis[p].static_trace = TraceBad =>
                fn.result =
                    trace_samples([fn.analysis EXCEPT ![p].static_trace = TraceMissing])

----------------------------------------------------------------------------
(* C15                                                                      *)

PsychReturned == fn.name = "calculate_psych_metrics" /\ fn.returned

\* No ply of the colour meets the rush or the freeze condition.
NoRushNoFreeze(game_data, color) ==
    \A i \in plies_of(game_data, color) :
        ~rush_condition(game_data, i) /\ ~freeze_condition(game_data, i)

\* No move of the colour took longer than the freeze threshold.
NeverOverFreeze(game_data, color) ==
    \A i \in plies_of(game_data, color) :
        game_data.time_per_move[i + 1] <= THRESHOLDS[game_data.time_metadata.category].freeze

\* From the ply of index 10 on, the colour's clock after its move is never
\* below the opponent's.
NeverBehind(game_data, color) ==
    \A i \in plies_of(game_data, color) : i >= 10 => time_diff(game_data, i) >= 0

\* C15 as stated: a player with no rush ply and no freeze ply (no move
\* longer than the freeze threshold) has TMG 100 for the game.
C15_NoRushNoFreezeGivesHundred ==
    PsychReturned =>
        \A color \in {"white", "black"} :
            (NoRushNoFreeze(fn.game_data, color) /\ NeverOverFreeze(fn.game_data, color))
                => fn.result[color].TMG = 100

\* C15 amended: a player with no rush ply and no freeze ply, whose clock is
\* never below the opponent's after a move from the ply of index 10 on, and
\* who did not lose on time, has TMG 100 for the game.
C15_NoPenaltyGivesHundred ==
    PsychReturned =>
        \A color \in {"white", "black"} :
            (/\ NoRushNoFreeze(fn.game_data, color)
             /\ NeverBehind(fn.game_data, color)
             /\ ~lost_on_time(fn.game_data.pgn, color))
                => fn.result[color].TMG = 100

\* A game of twelve plies in which Black froze on a blunder: White, never
\* behind on the clock afterwards, has 100 and Black has less.
C15_Witness ==
    /\ PsychReturned
    /\ count_of(fn.game_data) = 12
    /\ NoRushNoFreeze(fn.game_data, "white")
    /\ NeverBehind(fn.game_data, "white")
    /\ ~lost_on_time(fn.game_data.pgn, "white")
    /\ fn.result.white.TMG = 100
    /\ \E i \in plies_of(fn.game_data, "black") : freeze_condition(fn.game_data, i)
    /\ fn.result.black.TMG < 100

----------------------------------------------------------------------------
(* C21                                                                      *)

\* The accuracy of the k-th analysed ply taken from the side of a colour
AccuracyFor(analysis, k, color) ==
    LET wp == win_percents_of(analysis)
    IN  IF color = "white" THEN calculate_move_accuracy(wp[k], wp[k + 1])
        ELSE calculate_move_accuracy(10000 - wp[k], 10000 - wp[k + 1])

\* C21: the accuracy of every replayed ply is computed from the side of
\* the colour the PGN has to move at that ply, under which it is bucketed,
\* also when the second side moves first.
C21_MoverColourSynchronized ==
    AccScored =>
        LET analysis == fn.game_data.analysis
            move_accuracies == move_accuracies_of(win_percents_of(analysis))
        IN  \A color \in {"white", "black"} :
                \A j \in 1..Len(fn.buckets[color]["all"]) :
                    LET k == fn.buckets[color]["all"][j]
                    IN  move_accuracies[k] = AccuracyFor(analysis, k, color)

----------------------------------------------------------------------------
(* C22                                                                      *)

\* C22: in every session, each of the twelve metric sample lists is as
\* long as games_processed says.
C22_CountEqualsListLengths ==
    \A u \in DOMAIN SESSIONS :
        \A m \in MetricNames :
            Len(SESSIONS[u].metrics_list[m]) = SESSIONS[u].games_processed

\* A session after two games, one of them failed (a 0 sample appended),
\* next to a session just created.
C22_Witness ==
    /\ DOMAIN SESSIONS = Users
    /\ \E u \in Users :
          /\ SESSIONS[u].games_processed = 2
          /\ \A m \in MetricNames : Len(SESSIONS[u].metrics_list[m]) = 2
          /\ \E i \in 1..2 : \A m \in MetricNames : SESSIONS[u].metrics_list[m][i] = Some(0)
          /\ \E v \in Users \ {u} : SESSIONS[v].games_processed = 0

----------------------------------------------------------------------------
(* C23                                                                      *)

\* C23: a process_game_result request without a username, or with one
\* that has no session, gets the 'Session expired' error, leaves the
\* session store as it was and writes no archive line.
C23_ExpiredLeavesAllUnchanged ==
    [][(/\ call'.op = "process_game_result"
        /\ (call'.username = "" \/ call'.username \notin DOMAIN SESSIONS))
          => /\ response' = [kind |-> "error", error |-> "Session expired", code |-> 400]
             /\ SESSIONS' = SESSIONS
             /\ call'.archived = Null
             /\ ~call'.appended]_vars

\* A request for a player without a session, and one without a username,
\* while another player's session holds a game.
C23_Witness ==
    /\ call.op = "process_game_result"
    /\ call.username \notin DOMAIN SESSIONS
    /\ call.archived = Null
    /\ response.kind = "error"
    /\ \E u \in DOMAIN SESSIONS : SESSIONS[u].games_processed = 1

----------------------------------------------------------------------------
(* C24                                                                      *)

\* C24: with n >= 5 non-null samples of a metric, the floor(n/10) lowest
\* and highest leave at least one sample, so the estimate is never the
\* fallback's; with 5 to 9 samples nothing is dropped and the estimate is
\* the truncated mean of all of them; with 10 the lowest and the highest
\* sample are dropped.
C24_TrimNeverEmpties ==
    (fn.name = "_calculate_aggregates" /\ fn.returned) =>
        \A m \in MetricNames :
            LET valid == NonNull(SESSIONS["alice"].metrics_list[m])
                n == Len(valid)
            IN  /\ n >= 5 => n - 2 * (n \div 10) >= 1
                /\ (n >= 5 /\ n <= 9) => fn.result[m] = SumSeq(valid) \div n
                /\ n = 10 =>
                      fn.result[m] = (SumSeq(valid) - SeqMin(valid) - SeqMax(valid)) \div 8

\* The aggregator has run on a session in which one metric has 5 to 9
\* unequal non-null samples and another has 10, whose estimate is not the
\* mean of all ten.
C24_Witness ==
    /\ fn.name = "_calculate_aggregates" /\ fn.returned
    /\ \E m \in MetricNames :
          LET valid == NonNull(SESSIONS["alice"].metrics_list[m])
          IN  Len(valid) >= 5 /\ Len(valid) <= 9 /\ SeqMin(valid) < SeqMax(valid)
    /\ \E m \in MetricNames :
          LET valid == NonNull(SESSIONS["alice"].metrics_list[m])
          IN  Len(valid) = 10 /\ fn.result[m] # SumSeq(valid) \div 10

----------------------------------------------------------------------------
(* C25                                                                      *)

----------------------------------------------------------------------------
(* C26                                                                      *)

\* The second side's own win probability (scores are white-relative) is
\* lower after the move played than after the best engine line.
MoverWorseOff(step) ==
    10000 - tac_to_win_percent(step.played_eval)
        < 10000 - tac_to_win_percent(step.top_lines[1].score)

\* C26: for a ply of the second side whose played move leaves the mover
\* with a lower own win probability than the best line, the loss of the
\* tactics, attack/defense and psych models is positive and a TAC sample
\* of the ply is below 100.
C26_LossFromMoverSide ==
    TraceReturned =>
        \A i \in 1..(Len(fn.analysis) - 1) :
            ((i - 1) % 2 = 1 /\ MoverWorseOff(fn.analysis[i])) =>
                /\ fn.losses[i].positional > 0
                /\ fn.losses[i].atk_def > 0
                /\ fn.losses[i].psych > 0
                /\ fn.tac_scores[i] # Null => fn.tac_scores[i][1] < 10000

====
